---- MODULE Spec2Model ----
(***************************************************************************)
(* A model of acsobjdump (src/main.c): the inspector of ACS object files.  *)
(* The file buffer is a sequence of bytes; every multi-byte field is read  *)
(* from those bytes as the C code reads it (little-endian, 32-bit, signed).*)
(***************************************************************************)
EXTENDS Integers, Sequences, FiniteSets, TLC

VARIABLES data, options, pc, object, reader, chunk, oob, todo, segment, shown,
          viewed, result, released

vars ==
   <<data, options, pc, object, reader, chunk, oob, todo, segment, shown,
     viewed, result, released>>

-----------------------------------------------------------------------------
(* Bounds of the model.                                                    *)

\* most chunk records placed in a generated file
MaxChunks == 2

-----------------------------------------------------------------------------
(* Bytes and 32-bit integers.                                              *)

\* sizeof( struct header ), sizeof( struct chunk_header )
HeaderSize == 8
ChunkHeaderSize == 8
\* sizeof( int )
IntSize == 4
\* sizeof( struct acs0_script_entry )
Acs0EntrySize == 12

\* The low 31 bits of a 32-bit two's complement integer.
Low31(v) == IF v >= 0 THEN v ELSE (v + 2147483647) + 1

\* The four bytes of a 32-bit integer as memcpy() lays them out.
LE32(v) ==
   LET u == Low31(v)
   IN <<u % 256, (u \div 256) % 256, (u \div 65536) % 256,
        (u \div 16777216) + (IF v < 0 THEN 128 ELSE 0)>>

\* The int that memcpy() of four bytes into an int produces.
I32(b) ==
   b[1] + 256 * b[2] + 65536 * b[3] +
   16777216 * (IF b[4] >= 128 THEN b[4] - 256 ELSE b[4])

\* Addition of two 4-byte values modulo 2^32 (unsigned conversion and
\* truncation back to int).
AddBytes(x, y) ==
   LET s1 == x[1] + y[1]
       s2 == x[2] + y[2] + (s1 \div 256)
       s3 == x[3] + y[3] + (s2 \div 256)
       s4 == x[4] + y[4] + (s3 \div 256)
   IN <<s1 % 256, s2 % 256, s3 % 256, s4 % 256>>

Add32(a, b) == I32(AddBytes(LE32(a), LE32(b)))

\* a * 12 modulo 2^32
Mul12(a) ==
   LET x1 == LE32(a)
       x2 == AddBytes(x1, x1)
       x4 == AddBytes(x2, x2)
       x8 == AddBytes(x4, x4)
   IN I32(AddBytes(x8, x4))

\* ASCII
IdBigE == <<65, 67, 83, 69>>
IdLittleE == <<65, 67, 83, 101>>
IdZero == <<65, 67, 83, 0>>
IdJunk == <<74, 85, 78, 75>>
NameSPTR == <<83, 80, 84, 82>>
NameFUNC == <<70, 85, 78, 67>>

-----------------------------------------------------------------------------
(* The object file.                                                        *)

\* object->size
N == Len(data)

\* The bytes data[o .. o+k-1] (0-based offsets), all inside the file.
Bytes(o, k) == [i \in 1..k |-> data[o + i]]

\* True iff the k bytes at offset o belong to the allocated buffer, which
\* holds the file and one terminating NUL byte.
InBuffer(o, k) == o >= 0 /\ o + k <= N + 1

\* One byte of the buffer.
ByteAt(o) == IF o = N THEN 0 ELSE data[o + 1]

ReadBytes(o, k) == [i \in 1..k |-> ByteAt(o + i - 1)]

ReadInt(o) == I32(ReadBytes(o, IntSize))

\* Values an out-of-buffer read may deliver.
UBInts == {-8, 0, 8}

\* Outcomes of an out-of-buffer read: a fault, or some value.
UBReads ==
   {[crash |-> TRUE, int |-> 0]} \cup
   {[crash |-> FALSE, int |-> v] : v \in UBInts}

data_left(o) == N - o

\* offset_in_object_file() without the upper end.
OffsetNotNegative(offset) == offset >= 0

offset_in_object_file(offset) == offset >= 0 /\ offset < N

InitObject ==
   [format |-> "UNKNOWN", directory_offset |-> 0, string_offset |-> 0,
    real_header_offset |-> 0, chunk_offset |-> 0, indirect_format |-> FALSE,
    small_code |-> FALSE]

NoChunk == [name |-> <<>>, data |-> 0, size |-> 0, type |-> <<>>]
NoReader == [pos |-> 0, end_pos |-> 0]
NoSegment ==
   [offset |-> 0, data |-> 0, code_size |-> 0, opcode |-> 0,
    invalid_opcode |-> FALSE]

\* options->view_chunk == NULL
NoName == <<>>

EXIT_SUCCESS == 0
EXIT_FAILURE == 1

\* No string shown yet.
NoString ==
   [offset |-> 0, start |-> 0, value |-> <<>>, last |-> 0, chunk |-> NoChunk]

-----------------------------------------------------------------------------
(* Format resolver.                                                        *)

IsRealId(id) == id = IdBigE \/ id = IdLittleE

peek_real_id(header_offset) ==
   LET offset == header_offset - IntSize
   IN /\ offset_in_object_file(offset)
      /\ IsRealId(ReadBytes(offset, 4))

\* A format that is never the one the id names.
FormatOfIdSwapped(id) == IF id[4] = 69 THEN "LITTLE_E" ELSE "BIG_E"

\* The format named by the last letter of an id.
FormatOfId(id) == IF id[4] = 69 THEN "BIG_E" ELSE "LITTLE_E"

\* The real header taken to start at the format name.
RealHeaderOffsetAtId(header_offset) == header_offset - IntSize

\* The offset of the real header: the chunk-section offset field that
\* precedes the format name, which precedes the script directory.
RealHeaderOffset(header_offset) == header_offset - 2 * IntSize

\* The object descriptor determine_format() leaves behind for a header that
\* passed its checks.
ClassifyHeader(id, header_offset) ==
   LET base == [InitObject EXCEPT !.directory_offset = header_offset]
       classified ==
          IF IsRealId(id)
          THEN [base EXCEPT !.format = FormatOfId(id),
                            !.chunk_offset = header_offset]
          ELSE IF id = IdZero
          THEN IF peek_real_id(header_offset)
               THEN [base EXCEPT
                       !.format = FormatOfId(
                          ReadBytes(header_offset - IntSize, 4)),
                       !.real_header_offset = RealHeaderOffset(header_offset),
                       !.chunk_offset =
                          ReadInt(header_offset - 2 * IntSize),
                       !.indirect_format = TRUE]
               ELSE [base EXCEPT !.format = "ZERO"]
          ELSE base
   IN [classified EXCEPT !.small_code = (classified.format = "LITTLE_E")]

\* determine_format() bails on short files only.
FormatBailsWhenShort == data_left(0) < HeaderSize

\* True iff determine_format() bails.
FormatBails ==
   \/ data_left(0) < HeaderSize
   \/ ~offset_in_object_file(ReadInt(4))
   \/ /\ Bytes(0, 4) = IdZero
      /\ peek_real_id(ReadInt(4))
      /\ ~offset_in_object_file(ReadInt(4) - 2 * IntSize)

determine_format ==
   /\ pc = "determine_format"
   /\ IF FormatBails
      THEN /\ pc' = "bail"
           /\ UNCHANGED object
      ELSE /\ object' = ClassifyHeader(Bytes(0, 4), ReadInt(4))
           /\ pc' = "determine_object_offsets"
   /\ UNCHANGED <<data, options, reader, chunk, oob, todo, segment, shown,
                  viewed, result,
                  released>>

script_directory_present(obj) ==
   CASE obj.format \in {"BIG_E", "LITTLE_E"} -> obj.indirect_format
     [] obj.format = "ZERO" -> TRUE
     [] OTHER -> FALSE

\* directory_offset + sizeof( total_scripts ) + total_scripts * 12, as the
\* unsigned arithmetic truncated to int computes it.
StringOffset(directory_offset, total_scripts) ==
   Add32(Add32(directory_offset, IntSize), Mul12(total_scripts))

determine_object_offsets ==
   /\ pc = "determine_object_offsets"
   /\ IF script_directory_present(object)
      THEN IF data_left(object.directory_offset) < IntSize
           THEN /\ pc' = "bail"
                /\ UNCHANGED object
           ELSE LET total_scripts == ReadInt(object.directory_offset)
                    string_offset ==
                       StringOffset(object.directory_offset, total_scripts)
                IN IF offset_in_object_file(string_offset)
                   THEN /\ object' =
                             [object EXCEPT !.string_offset = string_offset]
                        /\ pc' = "perform_operation"
                   ELSE /\ pc' = "bail"
                        /\ UNCHANGED object
      ELSE /\ pc' = "perform_operation"
           /\ UNCHANGED object
   /\ UNCHANGED <<data, options, reader, chunk, oob, todo, segment, shown,
                  viewed, result,
                  released>>

-----------------------------------------------------------------------------
(* Chunk walker.                                                           *)

ToUpper(b) == IF b >= 97 /\ b <= 122 THEN b - 32 ELSE b

SupportedChunks ==
   { <<65, 82, 65, 89>>, <<65, 73, 78, 73>>, <<65, 73, 77, 80>>,
     <<65, 83, 84, 82>>, <<77, 83, 84, 82>>, <<65, 84, 65, 71>>,
     <<76, 79, 65, 68>>, <<70, 85, 78, 67>>, <<70, 78, 65, 77>>,
     <<77, 73, 78, 73>>, <<77, 73, 77, 80>>, <<77, 69, 88, 80>>,
     <<83, 80, 84, 82>>, <<83, 70, 76, 71>>, <<83, 86, 67, 84>>,
     <<83, 78, 65, 77>>, <<83, 84, 82, 76>>, <<83, 84, 82, 69>>,
     <<83, 65, 82, 89>>, <<70, 65, 82, 89>>, <<65, 76, 73, 66>> }

\* The chunk type: the upper-cased name when it is a supported chunk.
get_chunk_type(name) ==
   LET buff == [i \in 1..4 |-> ToUpper(name[i])]
   IN IF buff \in SupportedChunks THEN buff ELSE <<>>

init_chunk_reader(obj) ==
   [end_pos |-> IF obj.indirect_format THEN obj.real_header_offset ELSE N,
    pos |-> obj.chunk_offset]

\* `end_pos - pos >= sizeof( struct chunk_header )`: the int difference is
\* converted to size_t, so a negative difference compares as a huge value.
ChunkHeaderLeft(r) ==
   LET diff == r.end_pos - r.pos
   IN diff < 0 \/ diff >= ChunkHeaderSize

\* The cursor after a chunk: pos += sizeof( struct chunk_header ) + size.
NextPos(pos, size) == Add32(Add32(pos, ChunkHeaderSize), size)

\* The chunk init_chunk() builds from a header (name, size) at offset.
MakeChunk(offset, name, size) ==
   [name |-> name, data |-> offset + ChunkHeaderSize, size |-> size,
    type |-> get_chunk_type(name)]

\* read_chunk() at cursor r: "end" when it returns false, "bail" when an
\* expect_data() of init_chunk() fails, "ub" when the header it copies lies
\* outside the buffer, else "chunk" with the chunk and the next cursor.
ReadChunkStep(r) ==
   IF ~ChunkHeaderLeft(r)
   THEN [kind |-> "end", chunk |-> NoChunk, pos |-> r.pos]
   ELSE IF data_left(r.pos) < ChunkHeaderSize
   THEN [kind |-> "bail", chunk |-> NoChunk, pos |-> r.pos]
   ELSE IF ~InBuffer(r.pos, ChunkHeaderSize)
   THEN [kind |-> "ub", chunk |-> NoChunk, pos |-> r.pos]
   ELSE LET name == ReadBytes(r.pos, 4)
            size == ReadInt(r.pos + 4)
        IN IF data_left(r.pos + ChunkHeaderSize) < size
           THEN [kind |-> "bail", chunk |-> NoChunk, pos |-> r.pos]
           ELSE [kind |-> "chunk", chunk |-> MakeChunk(r.pos, name, size),
                 pos |-> NextPos(r.pos, size)]

\* read_chunk() as one iteration of a chunk walk; `continue` is the position
\* of the loop that called it, `finish` the position after the loop.
read_chunk(continue, finish) ==
   LET step == ReadChunkStep(reader)
   IN CASE step.kind = "end" ->
             /\ pc' = finish
             /\ UNCHANGED <<reader, chunk, oob>>
        [] step.kind = "bail" ->
             /\ pc' = "bail"
             /\ UNCHANGED <<reader, chunk, oob>>
        [] step.kind = "chunk" ->
             /\ chunk' = step.chunk
             /\ reader' = [reader EXCEPT !.pos = step.pos]
             /\ pc' = continue
             /\ UNCHANGED oob
        [] step.kind = "ub" ->
             \* the header lies before the buffer: the read is undefined
             /\ oob' = TRUE
             /\ \E read \in UBReads :
                   IF read.crash
                   THEN /\ pc' = "crash"
                        /\ UNCHANGED <<reader, chunk>>
                   ELSE IF data_left(reader.pos + ChunkHeaderSize) < read.int
                   THEN /\ pc' = "bail"
                        /\ UNCHANGED <<reader, chunk>>
                   ELSE /\ chunk' =
                             MakeChunk(reader.pos, NameSPTR, read.int)
                        /\ reader' =
                             [reader EXCEPT
                                !.pos = NextPos(reader.pos, read.int)]
                        /\ pc' = continue

-----------------------------------------------------------------------------
(* Whole chunk walks: find_chunk().                                        *)

Min(S) == CHOOSE x \in S : \A y \in S : x <= y

\* The chunks a walk from cursor r materializes and how the walk stops:
\* "end", "bail" or "ub" as for read_chunk(), "hang" when the cursor comes
\* back to a position it had before (the walk then repeats for ever).
RECURSIVE Walk(_, _)
RECURSIVE WalkFrom(_, _, _)
Walk(r, visited) ==
   IF r.pos \in visited
   THEN [chunks |-> <<>>, stop |-> "hang"]
   ELSE WalkFrom(r, visited, ReadChunkStep(r))

\* The walk whose first read_chunk() at cursor r gave `step`.
WalkFrom(r, visited, step) ==
   IF step.kind # "chunk"
   THEN [chunks |-> <<>>, stop |-> step.kind]
   ELSE [Walk([r EXCEPT !.pos = step.pos], visited \cup {r.pos})
           EXCEPT !.chunks = <<step.chunk>> \o @]

\* find_chunk(): the first chunk whose name is exactly `name`.
FirstNamed(walk, name, hits) ==
   IF hits # {}
   THEN [kind |-> "found", chunk |-> walk.chunks[Min(hits)]]
   ELSE [kind |-> IF walk.stop = "end" THEN "none" ELSE walk.stop,
         chunk |-> NoChunk]

NamedIn(walk, name) ==
   FirstNamed(walk, name,
      {i \in DOMAIN walk.chunks : walk.chunks[i].name = name})

find_chunk(obj, name) == NamedIn(Walk(init_chunk_reader(obj), {}), name)

-----------------------------------------------------------------------------
(* Script and function tables.                                             *)

\* sizeof( struct func_entry )
FuncEntrySize == 8
\* offsetof( offset ) in an SPTR entry (both layouts) and in a FUNC entry
EntryOffsetField == 4

\* real_entry_size of read_acse_script_entry()
AcseEntrySize(obj) == IF obj.indirect_format THEN 8 ELSE 12

\* The entries of an SPTR chunk that the loop `while ( pos < chunk->size )`
\* reads before it ends or expect_chunk_data() bails.
ScriptEntryCount(obj, c) ==
   IF c.size <= 0 THEN 0 ELSE c.size \div AcseEntrySize(obj)

ScriptEntryOffsets(obj, c) ==
   [i \in 1..ScriptEntryCount(obj, c) |->
      ReadInt(c.data + (i - 1) * AcseEntrySize(obj) + EntryOffsetField)]

\* True iff expect_chunk_data() bails on a last, partial entry.
ScriptEntriesBail(obj, c) ==
   c.size > 0 /\ c.size % AcseEntrySize(obj) # 0

\* total_funcs = chunk->size / sizeof( entry ) for a size that is not
\* negative.
FuncEntryOffsets(c) ==
   [i \in 1..(c.size \div FuncEntrySize) |->
      ReadInt(c.data + (i - 1) * FuncEntrySize + EntryOffsetField)]

\* The script directory: its count, and the offsets of its entries.
DirectoryCount(obj) == ReadInt(obj.directory_offset)

DirectoryEntryOffsets(obj, count) ==
   [i \in 1..count |->
      ReadInt(obj.directory_offset + IntSize + (i - 1) * Acs0EntrySize +
         EntryOffsetField)]

\* True iff `count` records of `size` bytes from offset o lie in the buffer.
RecordsInBuffer(o, count, size) ==
   count <= 0 \/ (o >= 0 /\ o <= N + 1 /\ count <= (N + 1 - o) \div size)

\* The string directory: the offsets it lists.
StringOffsets(obj, count) ==
   [i \in 1..count |->
      ReadInt(obj.string_offset + IntSize + (i - 1) * IntSize)]

-----------------------------------------------------------------------------
(* Extent inference: calc_code_size().                                     *)

\* `if ( entry.offset > offset && entry.offset < end_offset )` over a list
\* of entry offsets.
RECURSIVE LowerEnd(_, _, _)
LowerEnd(offsets, offset, end_offset) ==
   IF offsets = <<>>
   THEN end_offset
   ELSE LowerEnd(Tail(offsets), offset,
           IF Head(offsets) > offset /\ Head(offsets) < end_offset
           THEN Head(offsets) ELSE end_offset)

\* `if ( object->chunk_offset < end_offset ) end_offset = chunk_offset;` and
\* the same for directory_offset.
SectionEnd(section_offset, end_offset) ==
   IF section_offset < end_offset THEN section_offset ELSE end_offset

\* Every format perform_operation() knows has chunks.
IsKnownFormat(obj) == obj.format \in {"BIG_E", "LITTLE_E", "ZERO"}

IsAcse(obj) == obj.format \in {"BIG_E", "LITTLE_E"}

NotFound == [kind |-> "none", chunk |-> NoChunk]

\* How the two find_chunk() calls and the entry loops after them stop
\* calc_code_size(): "bail", "hang", "ub" or "none".
ChunksStop(obj, sptr, func) ==
   IF sptr.kind \in {"bail", "hang", "ub"} THEN sptr.kind
   ELSE IF sptr.kind = "found" /\ ScriptEntriesBail(obj, sptr.chunk)
   THEN "bail"
   ELSE IF func.kind \in {"bail", "hang", "ub"} THEN func.kind
   ELSE IF func.kind = "found" /\ func.chunk.size < 0 THEN "ub"
   ELSE "none"

\* True iff the two directories, read without a bounds check, lie in the
\* buffer.
DirectoriesInBuffer(obj) ==
   /\ RecordsInBuffer(obj.directory_offset + IntSize, DirectoryCount(obj),
         Acs0EntrySize)
   /\ InBuffer(obj.string_offset, IntSize)
   /\ RecordsInBuffer(obj.string_offset + IntSize,
         ReadInt(obj.string_offset), IntSize)

\* The entry offsets calc_code_size() compares with the offset, in the
\* order it reads them.
EntryCandidates(obj, sptr, func, in_buffer) ==
   (IF sptr.kind = "found" THEN ScriptEntryOffsets(obj, sptr.chunk)
    ELSE <<>>) \o
   (IF func.kind = "found" /\ func.chunk.size >= 0
    THEN FuncEntryOffsets(func.chunk) ELSE <<>>) \o
   (IF in_buffer
    THEN DirectoryEntryOffsets(obj, DirectoryCount(obj)) \o
         StringOffsets(obj, ReadInt(obj.string_offset))
    ELSE <<>>)

\* The two final tests, on chunk_offset and on directory_offset.
SectionEnds(obj, end_offset) ==
   SectionEnd(IF script_directory_present(obj) THEN obj.directory_offset
              ELSE N,
      SectionEnd(IF IsAcse(obj) THEN obj.chunk_offset ELSE N, end_offset))

CodeSize(obj, offset, ub_offsets, sptr, func, in_buffer, chunks_stop) ==
   [kind |-> IF chunks_stop # "none" THEN chunks_stop
             ELSE IF ~in_buffer THEN "ub"
             ELSE "size",
    size |->
       SectionEnds(obj,
          LowerEnd(
             EntryCandidates(obj, sptr, func,
                in_buffer /\ script_directory_present(obj)) \o ub_offsets,
             offset, N)) - offset]

CodeSizeWith(obj, offset, ub_offsets, sptr, func) ==
   CodeSize(obj, offset, ub_offsets, sptr, func,
      script_directory_present(obj) => DirectoriesInBuffer(obj),
      ChunksStop(obj, sptr, func))

\* The outcome of calc_code_size( offset ): "size" with the size returned,
\* "bail" or "hang" when a find_chunk() or an entry read bails or never
\* returns, "ub" when it reads outside the buffer; ub_offsets are the values
\* such reads deliver.
calc_code_size(obj, offset, ub_offsets) ==
   CodeSizeWith(obj, offset, ub_offsets,
      IF IsAcse(obj) THEN find_chunk(obj, NameSPTR) ELSE NotFound,
      IF IsAcse(obj) THEN find_chunk(obj, NameFUNC) ELSE NotFound)

-----------------------------------------------------------------------------
(* Disassembler.                                                           *)

\* PCD_TOTAL and the opcodes show_args() names
PCD_TOTAL == 385
PCD_LSPEC1DIRECT == 9
PCD_LSPEC5DIRECT == 13
PCD_PUSHBYTE == 167
PCD_LSPEC1DIRECTB == 168
PCD_LSPEC5DIRECTB == 172
PCD_DELAYDIRECTB == 173
PCD_RANDOMDIRECTB == 174
PCD_PUSHBYTES == 175
PCD_PUSH2BYTES == 176
PCD_PUSH5BYTES == 179
PCD_CASEGOTOSORTED == 256
PCD_CALLFUNC == 351

\* The opcodes of the first case group of show_args(): one argument of 1
\* byte or 4 bytes.
OneArgOpcodes ==
   {
     4, 5, 6, 7, 8, 25, 26, 27, 28, 29, 30, 31, 32, 33, 34, 35, 36, 37,
     38, 39, 40, 41, 42, 43, 44, 45, 46, 47, 48, 49, 50, 51, 181, 182,
     183, 184, 185, 186, 187, 188, 189, 203, 204, 207, 208, 209, 210,
     211, 212, 213, 214, 215, 226, 227, 228, 229, 230, 231, 232, 233,
     234, 235, 236, 237, 238, 239, 240, 241, 242, 243, 263, 291, 292,
     294, 295, 296, 297, 298, 299, 300, 301, 302, 303, 304, 305, 306,
     307, 308, 309, 310, 311, 312, 313, 314, 315, 316, 317, 318, 319,
     320, 321, 322, 323, 324, 325, 359, 364, 365, 366, 367, 368, 369,
     370, 371, 372, 373, 374, 375, 376, 377 }

\* g_pcodes[ opcode ].num_args, for opcode = index - 1
PcodeNumArgs ==
   <<
     0, 0, 0, 1, 1, 1, 1, 1, 1, 2, 3, 4, 5, 6, 0, 0, 0, 0, 0, 0, 0,
     0, 0, 0, 0, 1, 1, 1, 1, 1, 1, 1, 1, 1, 1, 1, 1, 1, 1, 1, 1, 1,
     1, 1, 1, 1, 1, 1, 1, 1, 1, 1, 1, 1, 0, 0, 1, 0, 2, 0, 2, 0, 1,
     0, 1, 0, 2, 0, 2, 0, 0, 0, 0, 0, 0, 0, 0, 0, 0, 1, 0, 0, 1, 0,
     2, 0, 0, 0, 0, 0, 0, 0, 0, 0, 0, 0, 0, 0, 0, 0, 0, 0, 0, 0, 0,
     0, 0, 0, 0, 0, 0, 0, 0, 0, 0, 0, 0, 0, 0, 0, 0, 0, 0, 0, 0, 0,
     0, 0, 0, 0, 0, 0, 0, 3, 0, 0, 0, 0, 0, 1, 0, 1, 0, 0, 2, 0, 2,
     0, 1, 0, 6, 0, 4, 0, 3, 0, 3, 0, 0, 0, 0, 0, 0, 0, 0, 0, 1, 1,
     2, 3, 4, 5, 6, 1, 2, -1, 2, 3, 4, 5, 0, 1, 1, 1, 1, 1, 1, 1, 1,
     1, 0, 0, 0, 0, 0, 0, 0, 0, 0, 0, 0, 0, 0, 1, 1, 0, 0, 1, 1, 1,
     1, 1, 1, 1, 1, 1, 0, 0, 0, 0, 0, 0, 0, 0, 0, 0, 1, 1, 1, 1, 1,
     1, 1, 1, 1, 1, 1, 1, 1, 1, 1, 1, 1, 1, 0, 0, 0, 0, 0, 0, 0, 0,
     0, 0, 0, 0, -1, 0, 0, 0, 0, 0, 0, 1, 0, 0, 0, 0, 0, 0, 0, 0, 0,
     0, 0, 0, 0, 0, 0, 0, 0, 0, 0, 0, 0, 0, 0, 0, 0, 0, 0, 1, 1, 1,
     1, 1, 1, 1, 1, 1, 1, 1, 1, 1, 1, 1, 1, 1, 1, 1, 1, 1, 1, 1, 1,
     1, 1, 1, 1, 1, 1, 1, 1, 1, 1, 1, 0, 0, 0, 0, 0, 0, 0, 0, 0, 0,
     0, 0, 0, 0, 0, 0, 0, 0, 0, 0, 0, 0, 0, 0, 0, 2, 0, 0, 0, 0, 0,
     0, 0, 1, 0, 0, 0, 0, 1, 1, 1, 1, 1, 1, 1, 1, 1, 1, 1, 1, 1, 1,
     0, 0, 0, 1, 1, 0, 0 >>

init_pcode_segment(offset, code_size) ==
   [offset |-> offset, data |-> 0, code_size |-> code_size, opcode |-> 0,
    invalid_opcode |-> FALSE]

\* A segment that ends with its bytes only.
PcodeSegmentEndAtSize(seg) == seg.data >= seg.code_size

pcode_segment_end(seg) == seg.data >= seg.code_size \/ seg.invalid_opcode

\* A segment whose expect_pcode_data() failed.
Bailed == [bailed |-> TRUE]
IsBailed(seg) == "bailed" \in DOMAIN seg

\* expect_pcode_data( size ) followed by the read that advances the cursor.
Take(seg, size) ==
   IF IsBailed(seg) THEN seg
   ELSE IF seg.code_size - seg.data < size THEN Bailed
   ELSE [seg EXCEPT !.data = @ + size]

\* The byte and the int at the cursor.
PcodeByte(seg) == ByteAt(seg.offset + seg.data)
PcodeInt(seg) == ReadInt(seg.offset + seg.data)

\* A first byte from which on the opcode takes one byte more.
IsTwoByteOpcodeAbove(temp) == temp > 240

\* `if ( temp >= 240 )`
IsTwoByteOpcode(temp) == temp >= 240

\* The segment with the opcode recorded or refused.
WithOpcode(seg, opcode) ==
   IF IsBailed(seg) THEN seg
   ELSE IF opcode >= 0 /\ opcode < PCD_TOTAL
   THEN [seg EXCEPT !.opcode = opcode]
   ELSE [seg EXCEPT !.invalid_opcode = TRUE]

show_opcode(seg, small_code) ==
   IF small_code
   THEN LET first == Take(seg, 1)
        IN IF IsBailed(first) THEN first
           ELSE IF IsTwoByteOpcode(PcodeByte(seg))
           THEN IF IsBailed(Take(first, 1)) THEN Bailed
                ELSE WithOpcode(Take(first, 1),
                        PcodeByte(seg) + PcodeByte(first))
           ELSE WithOpcode(first, PcodeByte(seg))
   ELSE IF IsBailed(Take(seg, IntSize)) THEN Bailed
        ELSE WithOpcode(Take(seg, IntSize), PcodeInt(seg))

\* An integer argument of 1 byte (small code) or 4 bytes.
TakeScaled(seg, small_code) == Take(seg, IF small_code THEN 1 ELSE IntSize)

\* PCD_CASEGOTOSORTED with the padding measured from the start of the
\* segment instead of the start of the file.
TakeCasesFromBase(seg) ==
   LET remainder == seg.data % IntSize
       padded == IF remainder > 0 THEN Take(seg, IntSize - remainder)
                 ELSE seg
       counted == Take(padded, IntSize)
   IN IF IsBailed(counted) THEN Bailed
      ELSE LET count == PcodeInt(padded)
               left == counted.code_size - counted.data
           IN IF count <= 0 THEN counted
              ELSE IF count > left \div (2 * IntSize) THEN Bailed
              ELSE Take(counted, count * 2 * IntSize)

\* PCD_CASEGOTOSORTED: padding to a multiple of 4 of offset + cursor, the
\* count, then the cases of a value and an offset each.
TakeCases(seg) ==
   LET remainder == (seg.offset + seg.data) % IntSize
       padded == IF remainder > 0 THEN Take(seg, IntSize - remainder)
                 ELSE seg
       counted == Take(padded, IntSize)
   IN IF IsBailed(counted) THEN Bailed
      ELSE LET count == PcodeInt(padded)
               left == counted.code_size - counted.data
           IN IF count <= 0 THEN counted
              ELSE IF count > left \div (2 * IntSize) THEN Bailed
              ELSE Take(counted, count * 2 * IntSize)

\* The positions printf( "%08d>   case %d: " ) prints for the cases of
\* PCD_CASEGOTOSORTED that are read whole: offset + cursor once the value
\* of the case has been read.
CaseLinePcs(seg) ==
   LET remainder == (seg.offset + seg.data) % IntSize
       padded == IF remainder > 0 THEN Take(seg, IntSize - remainder)
                 ELSE seg
       counted == Take(padded, IntSize)
   IN IF IsBailed(counted) THEN <<>>
      ELSE LET count == PcodeInt(padded)
               left == counted.code_size - counted.data
               whole == IF count <= left \div (2 * IntSize) THEN count
                        ELSE left \div (2 * IntSize)
           IN [i \in 1..whole |->
                 counted.offset +
                    (counted.data + (i - 1) * 2 * IntSize + IntSize)]

\* PCD_CALLFUNC: num_args and index, a byte and a short in small code.
TakeCallFunc(seg, small_code) ==
   IF small_code THEN Take(Take(seg, 1), 2)
   ELSE Take(Take(seg, IntSize), IntSize)

show_args(seg, small_code) ==
   LET op == seg.opcode
   IN CASE op \in OneArgOpcodes -> TakeScaled(seg, small_code)
        [] op \in PCD_LSPEC1DIRECT..PCD_LSPEC5DIRECT ->
             Take(TakeScaled(seg, small_code),
                IntSize * (op - PCD_LSPEC1DIRECT + 1))
        [] op \in PCD_LSPEC1DIRECTB..PCD_LSPEC5DIRECTB ->
             Take(seg, op - PCD_LSPEC1DIRECTB + 2)
        [] op \in {PCD_PUSHBYTE, PCD_DELAYDIRECTB} -> Take(seg, 1)
        [] op = PCD_RANDOMDIRECTB -> Take(seg, 2)
        [] op \in PCD_PUSH2BYTES..PCD_PUSH5BYTES ->
             Take(seg, op - PCD_PUSH2BYTES + 2)
        [] op = PCD_PUSHBYTES ->
             IF IsBailed(Take(seg, 1)) THEN Bailed
             ELSE Take(Take(seg, 1), PcodeByte(seg))
        [] op = PCD_CASEGOTOSORTED -> TakeCases(seg)
        [] op = PCD_CALLFUNC -> TakeCallFunc(seg, small_code)
        [] OTHER -> Take(seg, IntSize * PcodeNumArgs[op + 1])

\* show_instruction(): the opcode, then its arguments unless it is invalid.
DecodeInstruction(seg, small_code) ==
   LET fetched == show_opcode(seg, small_code)
   IN IF IsBailed(fetched) THEN fetched
      ELSE IF fetched.invalid_opcode THEN fetched
      ELSE show_args(fetched, small_code)

-----------------------------------------------------------------------------
(* Strings of chunks and of the string directory.                          *)

NameAIMP == <<65, 73, 77, 80>>
NameLOAD == <<76, 79, 65, 68>>
NameFNAM == <<70, 78, 65, 77>>
NameMIMP == <<77, 73, 77, 80>>
NameMEXP == <<77, 69, 88, 80>>
NameSNAM == <<83, 78, 65, 77>>
NameSTRL == <<83, 84, 82, 76>>
NameSTRE == <<83, 84, 82, 69>>

\* a ^ b on the low n bits.
RECURSIVE XorBits(_, _, _)
XorBits(a, b, n) ==
   IF n = 0 THEN 0
   ELSE (((a % 2) + (b % 2)) % 2) +
        2 * XorBits(a \div 2, b \div 2, n - 1)

\* decode_ch() with the position itself in the key.
DecodeChEveryByte(string_offset, offset, ch) ==
   XorBits(ch, (string_offset * 157135 + offset) % 256, 8)

\* decode_ch(): ch ^ ( string_offset * 157135 + offset / 2 ), as a byte.
decode_ch(string_offset, offset, ch) ==
   XorBits(ch, (string_offset * 157135 + (offset \div 2)) % 256, 8)

\* The loop of show_string() over the bytes from file offset `start`: the
\* characters before the first NUL (decoded when is_encoded), the offset of
\* the last byte read, and whether the loop left the buffer.
RECURSIVE ScanFrom(_, _, _, _)
RECURSIVE ScanWith(_, _, _, _, _)
ScanFrom(start, string_offset, i, is_encoded) ==
   IF ~InBuffer(start + i, 1)
   THEN [value |-> <<>>, last |-> start + i, ub |-> TRUE]
   ELSE ScanWith(start, string_offset, i, is_encoded,
           IF is_encoded
           THEN decode_ch(string_offset, i, ByteAt(start + i))
           ELSE ByteAt(start + i))

ScanWith(start, string_offset, i, is_encoded, ch) ==
   IF ch = 0
   THEN [value |-> <<>>, last |-> start + i, ub |-> FALSE]
   ELSE [ScanFrom(start, string_offset, i + 1, is_encoded)
           EXCEPT !.value = <<ch>> \o @]

show_string(offset, start, is_encoded) ==
   ScanFrom(start, offset, 0, is_encoded)

\* strlen() of the string at file offset `start`.
StrLen(start) == ScanFrom(start, 0, 0, FALSE).last - start

\* An offset that lies in the file is taken to lie in the chunk.
ChunkOffsetInFile(c, offset) == offset_in_object_file(c.data + offset)

chunk_offset_in_chunk(c, offset) == offset >= 0 /\ offset < c.size

\* The memchr() of read_chunk_string(): a NUL in the bytes of the chunk
\* from `offset` on.
read_chunk_string(c, offset) ==
   \E i \in offset..(c.size - 1) : ByteAt(c.data + i) = 0

\* The search for the NUL on the bytes as stored, whatever the chunk.
IsStoredStringNulTerminated(c, offset) ==
   \E i \in offset..(c.size - 1) : ByteAt(c.data + i) = 0

is_strl_stre_string_nul_terminated(c, offset) ==
   \E i \in offset..(c.size - 1) :
      (IF c.type = NameSTRE
       THEN decode_ch(offset, i - offset, ByteAt(c.data + i))
       ELSE ByteAt(c.data + i)) = 0

-----------------------------------------------------------------------------
(* Dispatcher.                                                             *)

\* The code-bearing entries show_object() visits, in order: the entries of
\* every chunk show_chunk() decodes as SPTR or FUNC, then those of the script
\* directory. A "bail", "hang" or "ub" item ends the list where the run
\* bails, repeats for ever or reads outside the buffer.
Item(kind, offset) ==
   [kind |-> kind, offset |-> offset, reason |-> "", start |-> 0,
    encoded |-> FALSE, chunk |-> NoChunk, total |-> 0]

\* The line that opens a chunk ("-- name (offset= size=)") or a directory
\* ("== script directory", "== string directory") and the count printed
\* under it.
HeaderItem(kind, offset, total, c) ==
   [Item(kind, offset) EXCEPT !.total = total, !.chunk = c]

\* The run bails: an expect_chunk_data() ("data"), an
\* expect_chunk_offset_in_chunk() ("offset") or a string without NUL
\* ("string").
BailItem(reason, offset) == [Item("bail", offset) EXCEPT !.reason = reason]

\* The run bails on a string or an offset of chunk c.
ChunkBail(c, reason, offset) == [BailItem(reason, offset) EXCEPT !.chunk = c]

\* A string to show: `offset` is the offset read from the file, `start` the
\* file offset of its first byte.
StringItem(c, offset, start, is_encoded) ==
   [Item("string", offset) EXCEPT !.start = start, !.encoded = is_encoded,
                                  !.chunk = c]

\* The loop of show_fnam(), show_mexp(), show_snam() and show_strl_stre()
\* from the table entry at `pos` on, `count` entries to go.
RECURSIVE TableItems(_, _, _)
RECURSIVE TableEntry(_, _, _, _)
TableItems(c, pos, count) ==
   IF count <= 0 THEN <<>>
   ELSE IF c.size - pos < IntSize THEN <<BailItem("data", pos)>>
   ELSE TableEntry(c, pos, count, ReadInt(c.data + pos))

TableEntry(c, pos, count, offset) ==
   IF ~chunk_offset_in_chunk(c, offset) THEN <<ChunkBail(c, "offset", offset)>>
   ELSE IF ~(IF c.type \in {NameSTRL, NameSTRE}
             THEN is_strl_stre_string_nul_terminated(c, offset)
             ELSE read_chunk_string(c, offset))
   THEN <<ChunkBail(c, "string", offset)>>
   ELSE <<StringItem(c, offset, c.data + offset, c.type = NameSTRE)>> \o
        TableItems(c, pos + IntSize, count - 1)

\* show_fnam(), show_mexp(), show_snam(): the count, then the table.
NameTableItems(c) ==
   IF c.size < IntSize THEN <<BailItem("data", 0)>>
   ELSE TableItems(c, IntSize, ReadInt(c.data))

\* show_strl_stre(): padding, the count, padding, then the table.
StringTableItems(c) ==
   IF c.size < 3 * IntSize THEN <<BailItem("data", 0)>>
   ELSE TableItems(c, 3 * IntSize, ReadInt(c.data + IntSize))

\* show_load(): strings one after the other up to the end of the chunk.
RECURSIVE LoadItems(_, _)
LoadItems(c, pos) ==
   IF pos >= c.size THEN <<>>
   ELSE IF ~read_chunk_string(c, pos) THEN <<ChunkBail(c, "string", pos)>>
   ELSE <<StringItem(c, pos, c.data + pos, FALSE)>> \o
        LoadItems(c, pos + StrLen(c.data + pos) + 1)

\* show_mimp(): an index and a name, up to the end of the chunk.
RECURSIVE MimpItems(_, _)
MimpItems(c, pos) ==
   IF pos >= c.size THEN <<>>
   ELSE IF c.size - pos < IntSize THEN <<BailItem("data", pos)>>
   ELSE IF ~read_chunk_string(c, pos + IntSize)
   THEN <<ChunkBail(c, "string", pos + IntSize)>>
   ELSE <<StringItem(c, pos + IntSize, c.data + pos + IntSize, FALSE)>> \o
        MimpItems(c, pos + IntSize + StrLen(c.data + pos + IntSize) + 1)

\* show_aimp(): the count, then an index, a size and a name per array.
RECURSIVE AimpItems(_, _, _)
AimpItems(c, pos, count) ==
   IF count <= 0 THEN <<>>
   ELSE IF c.size - pos < 2 * IntSize THEN <<BailItem("data", pos)>>
   ELSE IF ~read_chunk_string(c, pos + 2 * IntSize)
   THEN <<ChunkBail(c, "string", pos + 2 * IntSize)>>
   ELSE <<StringItem(c, pos + 2 * IntSize, c.data + pos + 2 * IntSize,
             FALSE)>> \o
        AimpItems(c,
           pos + 2 * IntSize + StrLen(c.data + pos + 2 * IntSize) + 1,
           count - 1)

\* The strings show_chunk() shows for a chunk that holds strings.
StringChunkItems(c) ==
   CASE c.type \in {NameFNAM, NameMEXP, NameSNAM} -> NameTableItems(c)
     [] c.type \in {NameSTRL, NameSTRE} -> StringTableItems(c)
     [] c.type = NameLOAD -> LoadItems(c, 0)
     [] c.type = NameMIMP -> MimpItems(c, 0)
     [] c.type = NameAIMP ->
          IF c.size < IntSize THEN <<BailItem("data", 0)>>
          ELSE AimpItems(c, IntSize, ReadInt(c.data))
     [] OTHER -> <<>>

\* show_string_directory(): the count, then one string per offset; the
\* offsets are used as they are read.
RECURSIVE DirectoryStrings(_, _)
DirectoryStrings(pos, count) ==
   IF count <= 0 THEN <<>>
   ELSE IF data_left(pos) < IntSize THEN <<BailItem("data", pos)>>
   ELSE <<StringItem(NoChunk, ReadInt(pos), ReadInt(pos), FALSE)>> \o
        DirectoryStrings(pos + IntSize, count - 1)

\* show_string_directory() without its header and count lines.
StringDirectoryEntriesOnly(obj) ==
   DirectoryStrings(obj.string_offset + IntSize, ReadInt(obj.string_offset))

StringDirectoryItems(obj) ==
   IF data_left(obj.string_offset) < IntSize
   THEN <<HeaderItem("string_directory", obj.string_offset, 0, NoChunk),
          BailItem("data", obj.string_offset)>>
   ELSE IF obj.string_offset < 0
   THEN <<HeaderItem("string_directory", obj.string_offset, 0, NoChunk),
          Item("ub", 0)>>
   ELSE <<HeaderItem("string_directory", obj.string_offset,
             ReadInt(obj.string_offset), NoChunk)>> \o
        DirectoryStrings(obj.string_offset + IntSize,
           ReadInt(obj.string_offset))

NameAINI == <<65, 73, 78, 73>>

\* The element number taken from the position itself.
AiniElementAtPos(pos) == pos \div IntSize

\* `int element = ( pos - sizeof( index ) ) / sizeof( value );`
AiniElement(pos) == (pos - IntSize) \div IntSize

\* The loop of show_aini() from `pos` on: one "[element] = value" line per
\* value that expect_chunk_data() lets it read.
RECURSIVE AiniValues(_, _)
AiniValues(c, pos) ==
   IF pos >= c.size THEN <<>>
   ELSE IF c.size - pos < IntSize THEN <<ChunkBail(c, "data", pos)>>
   ELSE <<HeaderItem("element", AiniElement(pos), ReadInt(c.data + pos), c)>>
        \o AiniValues(c, pos + IntSize)

\* show_aini(): the line "array-index=", then the values.
AiniItems(c) ==
   IF c.size < IntSize THEN <<ChunkBail(c, "data", 0)>>
   ELSE <<HeaderItem("array_index", 0, ReadInt(c.data), c)>> \o
        AiniValues(c, IntSize)

\* show_chunk(): the entries of an SPTR or FUNC chunk, the strings of a
\* chunk that holds strings, the values of an AINI chunk.
ChunkContents(obj, c) ==
   IF c.type = NameSPTR
   THEN [i \in 1..ScriptEntryCount(obj, c) |->
           Item("script", ScriptEntryOffsets(obj, c)[i])] \o
        (IF ScriptEntriesBail(obj, c) THEN <<BailItem("data", 0)>>
         ELSE <<>>)
   ELSE IF c.type = NameFUNC
   THEN IF c.size < 0 THEN <<Item("ub", 0)>>
        ELSE [i \in 1..(c.size \div FuncEntrySize) |->
                Item("func", FuncEntryOffsets(c)[i])]
   ELSE IF c.type = NameAINI THEN AiniItems(c)
   ELSE StringChunkItems(c)

\* show_chunk() with its contents: the header line, then the contents.
ChunkItems(obj, c) ==
   <<HeaderItem("chunk", c.data - ChunkHeaderSize, 0, c)>> \o
   ChunkContents(obj, c)

RECURSIVE ChunksItems(_, _)
ChunksItems(obj, chunks) ==
   IF chunks = <<>> THEN <<>>
   ELSE ChunkItems(obj, Head(chunks)) \o ChunksItems(obj, Tail(chunks))

\* show_script_directory(): the entries expect_data() lets it read.
DirectoryItems(obj) ==
   LET count == DirectoryCount(obj)
       room == data_left(obj.directory_offset + IntSize) \div Acs0EntrySize
       readable == IF count <= 0 THEN 0 ELSE IF count <= room THEN count
                   ELSE IF room < 0 THEN 0 ELSE room
   IN <<HeaderItem("script_directory", obj.directory_offset, count,
           NoChunk)>> \o
      [i \in 1..readable |->
         Item("script", DirectoryEntryOffsets(obj, readable)[i])] \o
      (IF count > readable THEN <<BailItem("data", 0)>> ELSE <<>>)

\* The items up to the first one that ends the run.
RECURSIVE UntilStop(_)
UntilStop(items) ==
   IF items = <<>> THEN <<>>
   ELSE IF Head(items).kind \in {"bail", "hang", "ub"} THEN <<Head(items)>>
   ELSE <<Head(items)>> \o UntilStop(Tail(items))

ShowItems(obj) ==
   LET walk == IF IsAcse(obj) THEN Walk(init_chunk_reader(obj), {})
               ELSE [chunks |-> <<>>, stop |-> "end"]
   IN UntilStop(
         ChunksItems(obj, walk.chunks) \o
         (IF walk.stop # "end" THEN <<Item(walk.stop, 0)>> ELSE <<>>) \o
         (IF script_directory_present(obj)
          THEN DirectoryItems(obj) \o StringDirectoryItems(obj)
          ELSE <<>>))

perform_operation ==
   /\ pc = "perform_operation"
   /\ IF object.format \notin {"BIG_E", "LITTLE_E", "ZERO"}
      THEN \* error: unsupported format
           /\ pc' = "failed"
           /\ UNCHANGED <<reader, todo>>
      ELSE IF options.list_chunks
      THEN IF IsAcse(object)
           THEN /\ reader' = init_chunk_reader(object)
                /\ pc' = "list_chunks"
                /\ UNCHANGED todo
           ELSE \* error: format does not support chunks
                /\ pc' = "failed"
                /\ UNCHANGED <<reader, todo>>
      ELSE IF options.view_chunk # NoName
      THEN IF IsAcse(object) /\ get_chunk_type(options.view_chunk) # <<>>
           THEN \* view_chunk() up to its loop
                /\ reader' = init_chunk_reader(object)
                /\ pc' = "view_chunk"
                /\ UNCHANGED todo
           ELSE \* error: format does not support chunks, or
                \* error: unsupported chunk
                /\ pc' = "failed"
                /\ UNCHANGED <<reader, todo>>
      ELSE \* show_object()
           /\ todo' = ShowItems(object)
           /\ pc' = "show_entries"
           /\ UNCHANGED reader
   /\ UNCHANGED <<data, options, object, chunk, oob, segment, shown, viewed,
                  result,
                  released>>

\* show_pcode() over the bytes calc_code_size() found for the entry; when
\* calc_code_size() read outside the buffer, the run crashes or goes on with
\* the size the values read give.
show_pcode(entry, size) ==
   IF size.kind \in {"bail", "hang"}
   THEN /\ pc' = size.kind
        /\ UNCHANGED <<todo, segment, oob>>
   ELSE IF size.kind = "ub"
   THEN /\ oob' = TRUE
        /\ \E read \in UBReads :
              IF read.crash
              THEN /\ pc' = "crash"
                   /\ UNCHANGED <<todo, segment>>
              ELSE /\ segment' =
                        init_pcode_segment(entry.offset,
                           calc_code_size(object, entry.offset,
                              <<read.int>>).size)
                   /\ todo' = Tail(todo)
                   /\ pc' = "show_pcode"
   ELSE /\ segment' = init_pcode_segment(entry.offset, size.size)
        /\ todo' = Tail(todo)
        /\ pc' = "show_pcode"
        /\ UNCHANGED oob

\* show_string() of a string item, or the printf() of a chunk string:
\* the loop reads up to the first NUL; when it leaves the buffer the run
\* crashes or goes on with what it read.
show_string_item(entry, scan) ==
   /\ oob' = (oob \/ scan.ub)
   /\ \E crash \in IF scan.ub THEN BOOLEAN ELSE {FALSE} :
         IF crash
         THEN /\ pc' = "crash"
              /\ UNCHANGED <<todo, shown>>
         ELSE /\ shown' = [offset |-> entry.offset, start |-> entry.start,
                           value |-> scan.value, last |-> scan.last,
                           chunk |-> entry.chunk]
              /\ todo' = Tail(todo)
              /\ UNCHANGED pc
   /\ UNCHANGED segment

\* The entry at the head of the list.
show_item(entry) ==
   IF entry.kind \in {"bail", "hang"}
   THEN /\ pc' = entry.kind
        /\ UNCHANGED <<todo, segment, oob, shown>>
   ELSE IF entry.kind = "ub"
   THEN /\ oob' = TRUE
        /\ \E crash \in BOOLEAN :
              pc' = IF crash THEN "crash" ELSE "show_entries"
        /\ todo' = Tail(todo)
        /\ UNCHANGED <<segment, shown>>
   ELSE IF entry.kind \in {"chunk", "script_directory", "string_directory",
                           "array_index", "element"}
   THEN \* the header line, or a line of show_aini()
        /\ todo' = Tail(todo)
        /\ UNCHANGED <<pc, segment, oob, shown>>
   ELSE IF entry.kind = "string"
   THEN show_string_item(entry,
           show_string(entry.offset, entry.start, entry.encoded))
   ELSE IF \/ ~offset_in_object_file(entry.offset)
           \/ (entry.kind = "func" /\ entry.offset = 0)
   THEN \* warning, or (imported)
        /\ todo' = Tail(todo)
        /\ UNCHANGED <<pc, segment, oob, shown>>
   ELSE /\ show_pcode(entry, calc_code_size(object, entry.offset, <<>>))
        /\ UNCHANGED shown

\* One entry of show_sptr(), show_func(), show_script_directory() or a
\* string: the entry line, then show_pcode() over calc_code_size() bytes
\* when the offset lies in the file.
show_entry ==
   /\ pc = "show_entries"
   /\ IF todo = <<>>
      THEN \* back in the loop of view_chunk(), or show_object() is over
           /\ pc' = IF viewed # <<>> THEN "view_chunk" ELSE "done"
           /\ UNCHANGED <<todo, segment, oob, shown>>
      ELSE show_item(Head(todo))
   /\ UNCHANGED <<data, options, object, reader, chunk, viewed, result,
                  released>>

\* One iteration of the loop of show_pcode().
show_instruction ==
   /\ pc = "show_pcode"
   /\ IF pcode_segment_end(segment)
      THEN /\ pc' = "show_entries"
           /\ UNCHANGED segment
      ELSE LET decoded == DecodeInstruction(segment, object.small_code)
           IN IF IsBailed(decoded)
              THEN /\ pc' = "bail"
                   /\ UNCHANGED segment
              ELSE /\ segment' = decoded
                   /\ UNCHANGED pc
   /\ UNCHANGED <<data, options, object, reader, chunk, oob, todo, shown,
                  viewed, result,
                  released>>

list_chunks ==
   /\ pc = "list_chunks"
   /\ read_chunk("list_chunks", "done")
   /\ UNCHANGED <<data, options, object, todo, segment, shown, viewed,
                  result,
                  released>>

\* The loop of view_chunk(): the next chunk, and after the last one
\* `found` or "error: chunk not found". `viewed` holds the chunks shown so
\* far; `found` is true when it is not empty.
view_chunk ==
   /\ pc = "view_chunk"
   /\ read_chunk("show_chunk", IF viewed # <<>> THEN "done" ELSE "failed")
   /\ UNCHANGED <<data, options, object, todo, segment, shown, viewed,
                  result,
                  released>>

\* The body of the loop of view_chunk(): show_chunk() with its contents
\* when the type of the chunk is the type asked for.
show_chunk ==
   /\ pc = "show_chunk"
   /\ IF chunk.type = get_chunk_type(options.view_chunk)
      THEN /\ viewed' = Append(viewed, chunk)
           /\ todo' = UntilStop(ChunkItems(object, chunk))
           /\ pc' = "show_entries"
      ELSE /\ pc' = "view_chunk"
           /\ UNCHANGED <<viewed, todo>>
   /\ UNCHANGED <<data, options, object, reader, chunk, oob, segment, shown,
                  result, released>>

\* `success` of run() whatever brought control back to it.
RunSuccessAlways(at) == TRUE

\* `success` of run(): true after perform_operation() has returned, false
\* after the longjmp() of bail().
run_success(at) == at # "bail"

\* run() and main(): perform_operation() has returned, whatever it
\* returned, or the run has bailed; deinit_viewer() frees the buffer.
run ==
   /\ pc \in {"done", "failed", "bail"}
   /\ result' = IF run_success(pc) THEN EXIT_SUCCESS ELSE EXIT_FAILURE
   /\ released' = released + 1
   /\ pc' = "exit"
   /\ UNCHANGED <<data, options, object, reader, chunk, oob, todo, segment,
                  shown, viewed>>

-----------------------------------------------------------------------------
(* Object files the model runs on.                                         *)

RECURSIVE Concat(_)
Concat(seqs) ==
   IF seqs = <<>> THEN <<>> ELSE Head(seqs) \o Concat(Tail(seqs))

\* Sequences of at most n elements of S.
SeqUpTo(S, n) == UNION {[1..k -> S] : k \in 0..n}

\* A chunk record: a header announcing `size` bytes, followed by `words`
\* 4-byte words of body.
ChunkRecord(name, size, words) ==
   name \o LE32(size) \o Concat([i \in 1..words |-> LE32(0)])

ChunkRecords ==
   {ChunkRecord(name, sw[1], sw[2]) :
      name \in {NameSPTR, NameFUNC},
      sw \in {<<-16, 0>>, <<0, 0>>, <<4, 0>>, <<4, 1>>}}

ChunkSections == {Concat(s) : s \in SeqUpTo(ChunkRecords, MaxChunks)}

\* Direct ACSE/ACSe files: header, chunk section.
DirectFiles ==
   {id \o LE32(offset) \o chunks :
      id \in {IdBigE, IdLittleE}, offset \in {8, 16},
      chunks \in ChunkSections}

\* Files with the ACS0 id: header, chunk section, real header (or other
\* words in its place), script directory, string directory.
ZeroFiles ==
   UNION {
      LET real == HeaderSize + Len(chunks)
          size == real + 16
      IN {IdZero \o LE32(offset) \o chunks \o LE32(chunk_offset) \o id \o
             LE32(total_scripts) \o LE32(0) :
            offset \in {real + 8, size},
            chunk_offset \in {8, real, -4, 64},
            id \in {IdBigE, IdLittleE, LE32(0)},
            total_scripts \in {0, -1}}
      : chunks \in ChunkSections}

\* Files that are not object files: too short, unknown id, bad offset.
OtherFiles ==
   { <<>>, IdBigE, IdZero \o <<8, 0, 0>>, IdJunk \o LE32(8) \o LE32(0),
     IdJunk \o LE32(12), IdLittleE \o LE32(8), IdZero \o LE32(7),
     IdZero \o LE32(-1) \o LE32(0) }

Files == DirectFiles \cup ZeroFiles \cup OtherFiles

-----------------------------------------------------------------------------
(* The run with the -l option: resolve the format, list the chunks.        *)

Init ==
   /\ data \in Files
   /\ options = [list_chunks |-> TRUE, view_chunk |-> NoName]
   /\ pc = "determine_format"
   /\ object = InitObject
   /\ reader = NoReader
   /\ chunk = NoChunk
   /\ oob = FALSE
   /\ todo = <<>>
   /\ segment = NoSegment
   /\ shown = NoString
   /\ viewed = <<>>
   /\ result = EXIT_FAILURE
   /\ released = 0

Next ==
   \/ determine_format
   \/ determine_object_offsets
   \/ perform_operation
   \/ list_chunks
   \/ run

Spec == Init /\ [][Next]_vars

-----------------------------------------------------------------------------
(* The run without options: resolve the format, show the object. The files *)
(* hold script and function tables around code, or one instruction stream. *)

\* most entries of a generated SPTR chunk
MaxEntries == 2
\* most bytes after the first opcode of a generated instruction stream
MaxFiller == 24

ZeroBytes(n) == [i \in 1..n |-> 0]

ChunkOf(name, body) == name \o LE32(Len(body)) \o body

DirectScriptEntry(offset) == <<1, 0, 0, 0>> \o LE32(offset) \o LE32(0)
IndirectScriptEntry(offset) == <<1, 0, 0, 0>> \o LE32(offset)
FuncEntry(offset) == <<0, 0, 0, 0>> \o LE32(offset)
DirectoryEntry(offset) == LE32(1) \o LE32(offset) \o LE32(0)

EntryOffsets == {8, 12, 44, 100}
FuncOffsets == {0, 12, 44}
DirectoryOffsets == {12, 44}

DirectCodeFiles ==
   {LET chunks ==
           ChunkOf(NameSPTR,
              Concat([i \in DOMAIN so |-> DirectScriptEntry(so[i])])) \o
           ChunkOf(NameFUNC, Concat([i \in DOMAIN fo |-> FuncEntry(fo[i])]))
    IN IF chunks_first
       THEN id \o LE32(8) \o chunks \o ZeroBytes(8)
       ELSE id \o LE32(16) \o ZeroBytes(8) \o chunks \o ZeroBytes(4)
    : id \in {IdBigE, IdLittleE}, chunks_first \in BOOLEAN,
      so \in SeqUpTo(EntryOffsets, MaxEntries),
      fo \in SeqUpTo(FuncOffsets, 1)}

\* The script directory and the string directory.
Directories(scripts, strings) ==
   LE32(Len(scripts)) \o
   Concat([i \in DOMAIN scripts |-> DirectoryEntry(scripts[i])]) \o
   LE32(Len(strings)) \o
   Concat([i \in DOMAIN strings |-> LE32(strings[i])])

IndirectCodeFiles ==
   {LET chunks ==
           ChunkOf(NameSPTR,
              Concat([i \in DOMAIN so |-> IndirectScriptEntry(so[i])])) \o
           ChunkOf(NameFUNC, Concat([i \in DOMAIN fo |-> FuncEntry(fo[i])]))
    IN IdZero \o LE32(16 + Len(chunks) + 8) \o ZeroBytes(8) \o chunks \o
       LE32(16) \o IdBigE \o Directories(scripts, strings) \o ZeroBytes(4)
    : so \in SeqUpTo(EntryOffsets, MaxEntries),
      fo \in SeqUpTo(FuncOffsets, 1),
      scripts \in SeqUpTo(DirectoryOffsets, 1),
      strings \in SeqUpTo(DirectoryOffsets, 1)}

ZeroCodeFiles ==
   {IdZero \o LE32(16) \o ZeroBytes(8) \o Directories(scripts, strings) \o
       ZeroBytes(4)
    : scripts \in SeqUpTo(EntryOffsets, MaxEntries),
      strings \in SeqUpTo(DirectoryOffsets, 1)}

\* Encoded opcodes: every opcode and the ids next to the valid range.
WideOpcodes == {LE32(op) : op \in -1..(PCD_TOTAL + 1)}
SmallOpcodes ==
   {<<b>> : b \in 0..239} \cup
   {<<240, b>> : b \in 0..(PCD_TOTAL + 1 - 240)} \cup
   {<<255, 38>>, <<255, 255>>}

Fillers ==
   {SubSeq(pattern, 1, len) :
      pattern \in {ZeroBytes(MaxFiller), <<2, 1>> \o ZeroBytes(MaxFiller - 2)},
      len \in {0, 1, 2, 4, 8, MaxFiller}}

\* A direct file with one script: its code at offset 8, then the chunk
\* section with the SPTR chunk that declares it.
PcodeFile(id, code) ==
   id \o LE32(8 + Len(code)) \o code \o
   ChunkOf(NameSPTR, DirectScriptEntry(8))

PcodeFiles ==
   {PcodeFile(IdBigE, opcode \o filler) :
      opcode \in WideOpcodes, filler \in Fillers} \cup
   {PcodeFile(IdLittleE, opcode \o filler) :
      opcode \in SmallOpcodes, filler \in Fillers}

\* most cases of a generated PCD_CASEGOTOSORTED
MaxCases == 2

\* A direct file with one script whose code starts `lead` bytes after the
\* header.
LeadFile(id, lead, code) ==
   id \o LE32(8 + lead + Len(code)) \o ZeroBytes(lead) \o code \o
   ChunkOf(NameSPTR, DirectScriptEntry(8 + lead))

\* What follows the opcode PCD_CASEGOTOSORTED: padding, the count, the
\* cases, and up to one byte more.
CaseTables ==
   {ZeroBytes(pad) \o LE32(count) \o ZeroBytes(8 * count + rest) :
      pad \in 0..3, count \in 0..MaxCases, rest \in 0..1} \cup
   {ZeroBytes(len) : len \in 0..3}

CaseFiles ==
   {LeadFile(IdBigE, lead, LE32(PCD_CASEGOTOSORTED) \o table) :
      lead \in 0..3, table \in CaseTables} \cup
   {LeadFile(IdLittleE, lead,
       <<240, PCD_CASEGOTOSORTED - 240>> \o table) :
      lead \in 0..3, table \in CaseTables}

\* Opcode ids outside [0, PCD_TOTAL), encoded, each with bytes after it.
InvalidCodes(id) ==
   IF id = IdBigE
   THEN {LE32(op) \o ZeroBytes(4) : op \in {-1, PCD_TOTAL, PCD_TOTAL + 1}}
   ELSE {<<240, PCD_TOTAL - 240>> \o ZeroBytes(2),
         <<255, 255>> \o ZeroBytes(2)}

\* Direct files with two scripts, the first one starting with an opcode
\* outside the table, and a function after them.
InvalidOpcodeFile(id, code) ==
   id \o LE32(8 + Len(code) + 8) \o code \o ZeroBytes(8) \o
   ChunkOf(NameSPTR,
      DirectScriptEntry(8) \o DirectScriptEntry(8 + Len(code))) \o
   ChunkOf(NameFUNC, FuncEntry(8 + Len(code) + 4))

InvalidOpcodeFiles ==
   UNION {{InvalidOpcodeFile(id, code) : code \in InvalidCodes(id)} :
            id \in {IdBigE, IdLittleE}}

\* most characters of a generated string
MaxString == 3
\* most bytes between a string table and its first string
MaxLead == 3

\* Byte strings without NUL.
PlainStrings == SeqUpTo({1, 65, 255}, MaxString)

\* The STRE encoding of s and its NUL for a string at chunk-local `offset`:
\* byte k XORed with ( offset * 157135 + k / 2 ) mod 256.
Encode(s, offset) ==
   [k \in 1..(Len(s) + 1) |->
      XorBits((s \o <<0>>)[k],
         (offset * 157135 + ((k - 1) \div 2)) % 256, 8)]

\* A table of one string: padding, the count, padding, the offset, `lead`
\* bytes, the text.
StringTable(lead, text) ==
   LE32(0) \o LE32(1) \o LE32(0) \o LE32(16 + lead) \o
   [i \in 1..lead |-> 7] \o text

\* Direct files whose only chunk is an STRE chunk with one encoded string.
StreFiles ==
   {IdBigE \o LE32(8) \o
       ChunkOf(NameSTRE, StringTable(lead, Encode(s, 16 + lead)))
    : s \in PlainStrings, lead \in 0..MaxLead}

\* What a chunk can hold where a string is due: nothing, strings with their
\* NUL, strings without it.
Texts == {<<>>, <<0>>, <<65, 0>>, <<65, 66>>, <<65, 0, 66>>}

\* The same for an STRE chunk with its string at offset 16: stored NULs
\* that decode to something else, and encodings with and without the
\* decoded NUL.
EncodedTexts ==
   Texts \cup {Encode(<<65>>, 16), Encode(<<65>>, 16) \o <<7>>,
               SubSeq(Encode(<<65, 66>>, 16), 1, 2)}

\* The bodies of the chunks that hold strings, one string each.
StringBodies ==
   {[name |-> NameLOAD, body |-> t] : t \in Texts} \cup
   {[name |-> NameMIMP, body |-> LE32(1) \o t] : t \in Texts} \cup
   {[name |-> NameAIMP, body |-> LE32(1) \o LE32(0) \o LE32(2) \o t]
    : t \in Texts} \cup
   {[name |-> n, body |-> LE32(1) \o LE32(8) \o t]
    : n \in {NameFNAM, NameMEXP, NameSNAM}, t \in Texts} \cup
   {[name |-> NameSTRL, body |-> StringTable(0, t)] : t \in Texts} \cup
   {[name |-> NameSTRE, body |-> StringTable(0, t)] : t \in EncodedTexts}

\* What follows the chunk: the end of the file, or a chunk with a NUL.
Trailers == {<<>>, ChunkOf(NameLOAD, <<66, 0>>)}

\* Direct files with one chunk that holds a string.
StringChunkFiles ==
   {IdBigE \o LE32(8) \o ChunkOf(b.name, b.body) \o t
    : b \in StringBodies, t \in Trailers}

\* The chunks whose strings are found through a table of offsets.
TableTypes == {NameFNAM, NameMEXP, NameSNAM, NameSTRL, NameSTRE}

\* The bytes of a table chunk before its first offset.
TableHead(name) ==
   IF name \in {NameSTRL, NameSTRE} THEN LE32(0) \o LE32(1) \o LE32(0)
   ELSE LE32(1)

\* The offsets tried in a table, as distances from the end of the chunk:
\* before the chunk, its first byte, its string, its last byte, the byte
\* after it, the string of the next chunk, beyond the file.
OffsetDistances == {-100, -2, -1, 0, 8, 100}

\* Direct files with a table of one offset and the string "A", followed by
\* a chunk with the string "B".
OffsetFiles ==
   {LET size == Len(TableHead(n)) + IntSize + 2
        offset == IF d = -100 THEN -1
                  ELSE IF d = -2 /\ low THEN 0 ELSE size + d
    IN IdBigE \o LE32(8) \o
       ChunkOf(n, TableHead(n) \o LE32(offset) \o <<65, 0>>) \o
       ChunkOf(NameLOAD, <<66, 0>>)
    : n \in TableTypes, d \in OffsetDistances, low \in BOOLEAN}

\* A file whose chunks are walked backwards: the walk starts at the LOAD
\* chunk at 16, a chunk of negative size at 26 takes it back to the LOAD
\* chunk at 8, whose body covers the rest of the file.
BackwardFile ==
   IdBigE \o LE32(16) \o NameLOAD \o LE32(19) \o
   ChunkOf(NameLOAD, <<66, 0>>) \o <<0, 0, 0, 0>> \o LE32(-26) \o <<0>>

\* The ACS0 file of a magic, the offset 8 and a script count of 0, and the
\* same file with a string count of 0 after it.
MinimalZero == IdZero \o LE32(8) \o LE32(0)
MinimalZeroWithStrings == MinimalZero \o LE32(0)

\* ACS0 files with one script at offset 8 whose string directory is cut
\* short: a count of fewer than 4 bytes, or a count with no offset after
\* it.
TruncatedDirectoryFiles ==
   {IdZero \o LE32(16) \o ZeroBytes(8) \o Directories(<<8>>, <<>>)} \cup
   {IdZero \o LE32(16) \o ZeroBytes(8) \o LE32(1) \o DirectoryEntry(8) \o
       cut
    : cut \in {<<1>>, <<0, 0, 0>>, LE32(1), LE32(2)}}

\* The values of the longest AINI chunk.
MaxValues == 2

\* The body of an AINI chunk cut to `len` bytes: the array index 5, then
\* the values 6, 7, ...
AiniBody(len) == [i \in 1..len |-> IF i % 4 = 1 THEN (i \div 4) + 5 ELSE 0]

\* Direct files with one AINI chunk of every size from 0 to that of
\* MaxValues values and 3 bytes more, its tag in either case, alone or
\* followed by a LOAD chunk.
AiniFiles ==
   {IdBigE \o LE32(8) \o ChunkOf(name, AiniBody(len)) \o t
    : name \in {NameAINI, <<97, 105, 110, 105>>},
      len \in 0..(IntSize + IntSize * MaxValues + 3),
      t \in Trailers}

\* Direct files with 16 bytes of code at offset 8 and two entries, at 8
\* and at 12, held by one chunk with a lower-case tag or by two chunks of
\* the same tag.
SplitTableFiles ==
   {IdBigE \o LE32(24) \o ZeroBytes(16) \o chunks
    : chunks \in
        {ChunkOf(<<115, 112, 116, 114>>,
            DirectScriptEntry(8) \o DirectScriptEntry(12)),
         ChunkOf(NameSPTR, DirectScriptEntry(8)) \o
            ChunkOf(NameSPTR, DirectScriptEntry(12)),
         ChunkOf(<<102, 117, 110, 99>>, FuncEntry(8) \o FuncEntry(12)),
         ChunkOf(NameFUNC, FuncEntry(8)) \o
            ChunkOf(NameFUNC, FuncEntry(12))}}

ShowFiles ==
   DirectCodeFiles \cup IndirectCodeFiles \cup ZeroCodeFiles \cup
   PcodeFiles \cup CaseFiles \cup InvalidOpcodeFiles \cup StreFiles \cup
   StringChunkFiles \cup OffsetFiles \cup TruncatedDirectoryFiles \cup
   AiniFiles \cup SplitTableFiles \cup
   {BackwardFile, MinimalZero, MinimalZeroWithStrings}

InitShow ==
   /\ data \in ShowFiles
   /\ options = [list_chunks |-> FALSE, view_chunk |-> NoName]
   /\ pc = "determine_format"
   /\ object = InitObject
   /\ reader = NoReader
   /\ chunk = NoChunk
   /\ oob = FALSE
   /\ todo = <<>>
   /\ segment = NoSegment
   /\ shown = NoString
   /\ viewed = <<>>
   /\ result = EXIT_FAILURE
   /\ released = 0

NextShow ==
   \/ determine_format
   \/ determine_object_offsets
   \/ perform_operation
   \/ show_entry
   \/ show_instruction
   \/ run

SpecShow == InitShow /\ [][NextShow]_vars

-----------------------------------------------------------------------------
(* The whole process, main(): any options, run(), the exit code.           *)

\* most chunks of a generated file to view
MaxViewChunks == 2

\* The -c arguments: a type as it is spelled, in lower case, a type no file
\* here holds, an unsupported one, and one with a fifth character.
Requests ==
   {NameSPTR, <<115, 112, 116, 114>>, NameLOAD, NameFNAM,
    <<88, 88, 88, 88>>, NameSPTR \o <<88>>}

\* The chunks of the files to view: a script whose code is the 8 bytes at
\* offset 8, the same under a lower case name, a string, a string without
\* NUL, a chunk of no supported type.
ViewChunks ==
   {ChunkOf(NameSPTR, DirectScriptEntry(8)),
    ChunkOf(<<115, 112, 116, 114>>, DirectScriptEntry(100)),
    ChunkOf(NameLOAD, <<65, 0>>),
    ChunkOf(NameLOAD, <<65, 66>>),
    ChunkOf(<<88, 88, 88, 88>>, <<>>)}

ViewFiles ==
   {id \o LE32(16) \o ZeroBytes(8) \o Concat(chunks)
    : id \in {IdBigE, IdLittleE},
      chunks \in SeqUpTo(ViewChunks, MaxViewChunks)} \cup
   {IdZero \o LE32(16) \o ZeroBytes(8) \o Directories(<<>>, <<>>),
    IdZero \o LE32(16) \o ZeroBytes(8) \o Directories(<<8>>, <<12>>),
    <<65, 67, 83, 70>> \o LE32(4),
    IdBigE \o LE32(100),
    BackwardFile}

InitView ==
   /\ data \in ViewFiles
   /\ options \in [list_chunks : BOOLEAN, view_chunk : Requests \cup {NoName}]
   /\ pc = "determine_format"
   /\ object = InitObject
   /\ reader = NoReader
   /\ chunk = NoChunk
   /\ oob = FALSE
   /\ todo = <<>>
   /\ segment = NoSegment
   /\ shown = NoString
   /\ viewed = <<>>
   /\ result = EXIT_FAILURE
   /\ released = 0

NextView ==
   \/ determine_format
   \/ determine_object_offsets
   \/ perform_operation
   \/ list_chunks
   \/ view_chunk
   \/ show_chunk
   \/ show_entry
   \/ show_instruction
   \/ run

SpecView == InitView /\ [][NextView]_vars

-----------------------------------------------------------------------------
(* Properties of the format resolver.                                      *)

\* The resolver has completed without failing.
Resolved == pc = "perform_operation"

\* C1: when the resolver completes, every offset field it populated lies in
\* [0, N): directory_offset, chunk_offset of an ACSE/ACSe file (direct and
\* indirect), real_header_offset of an indirect file, and string_offset when
\* the script directory is present.
C1_PopulatedOffsetsInFile ==
   Resolved =>
      /\ offset_in_object_file(object.directory_offset)
      /\ object.format \in {"BIG_E", "LITTLE_E"} =>
            offset_in_object_file(object.chunk_offset)
      /\ object.indirect_format =>
            offset_in_object_file(object.real_header_offset)
      /\ script_directory_present(object) =>
            offset_in_object_file(object.string_offset)

\* C2 as written: an accepted indirect file has
\* chunk_offset < real_header_offset < directory_offset.
C2_ChunkSectionBeforeRealHeader ==
   Resolved /\ object.indirect_format =>
      /\ object.chunk_offset < object.real_header_offset
      /\ object.real_header_offset < object.directory_offset

\* C2 amended: an accepted indirect file has its real header inside the file
\* and 8 bytes before the script directory, real_header_offset =
\* directory_offset - 8 < directory_offset; chunk_offset is not ordered
\* against real_header_offset.
C2_RealHeaderBeforeDirectory ==
   Resolved /\ object.indirect_format =>
      /\ object.real_header_offset >= 0
      /\ object.real_header_offset = object.directory_offset - 8
      /\ object.real_header_offset < object.directory_offset

\* An accepted indirect file whose chunk section does not precede the real
\* header.
C2_Witness ==
   /\ Resolved
   /\ object.indirect_format
   /\ object.chunk_offset >= object.real_header_offset

\* The header fields as the file stores them.
FileId == SubSeq(data, 1, 4)
FileOffset == I32(SubSeq(data, 5, 8))
FileProbe == SubSeq(data, FileOffset - 3, FileOffset)
FileIsIndirect ==
   /\ FileId = IdZero
   /\ FileOffset >= 4
   /\ FileProbe \in {IdBigE, IdLittleE}

\* The descriptor matches the classification of the file's header.
Classified(obj) ==
   /\ obj.directory_offset = FileOffset
   /\ FileId = IdBigE =>
         /\ obj.format = "BIG_E"
         /\ ~obj.indirect_format
         /\ obj.chunk_offset = obj.directory_offset
   /\ FileId = IdLittleE =>
         /\ obj.format = "LITTLE_E"
         /\ ~obj.indirect_format
         /\ obj.chunk_offset = obj.directory_offset
   /\ FileIsIndirect =>
         /\ obj.format = (IF FileProbe = IdBigE THEN "BIG_E" ELSE "LITTLE_E")
         /\ obj.indirect_format
         /\ obj.real_header_offset = obj.directory_offset - 8
         /\ obj.chunk_offset = I32(SubSeq(data, FileOffset - 7, FileOffset - 4))
   /\ FileId = IdZero /\ ~FileIsIndirect =>
         /\ obj.format = "ZERO"
         /\ ~obj.indirect_format
   /\ FileId \notin {IdBigE, IdLittleE, IdZero} =>
         /\ obj.format = "UNKNOWN"
         /\ ~obj.indirect_format
   /\ obj.small_code <=> (obj.format = "LITTLE_E")

\* C3: a file of at least 8 bytes whose header offset is in range is
\* classified by its id: "ACSE" is BigE and "ACSe" LittleE, both direct with
\* chunk_offset = directory_offset; "ACS\0" with "ACSE"/"ACSe" at
\* directory_offset - 4 is the indirect BigE/LittleE with real_header_offset
\* = directory_offset - 8 and chunk_offset the integer stored there; any
\* other "ACS\0" is Zero; any other id is Unknown; small_code iff LittleE.
C3_Classification ==
   [][(pc = "determine_format" /\ N >= 8 /\ FileOffset >= 0 /\ FileOffset < N)
        => (pc' = "determine_object_offsets" /\ Classified(object'))]_vars

\* Scenario S3: an indirect ACSe file has been classified.
C3_Witness ==
   /\ pc = "determine_object_offsets"
   /\ FileIsIndirect
   /\ FileProbe = IdLittleE
   /\ object.small_code

-----------------------------------------------------------------------------
(* Properties of the chunk walker.                                         *)

\* A chunk has been materialized.
Materialized == chunk # NoChunk

\* The end of the chunk region.
RegionEnd ==
   IF object.indirect_format THEN object.real_header_offset ELSE N

\* C4: the body of every materialized chunk lies inside the file buffer:
\* 0 <= data_offset, 0 <= size and data_offset + size <= N.
C4_ChunkBodyInFile ==
   Materialized =>
      /\ chunk.data >= 0
      /\ chunk.size >= 0
      /\ chunk.data + chunk.size <= N

\* C5: the cursor of a chunk walk never decreases from one read_chunk call
\* to the next.
C5_CursorNeverDecreases ==
   [][(pc = "list_chunks" /\ pc' = "list_chunks")
        => reader'.pos >= reader.pos]_vars

\* C6: the 8-byte header of every materialized chunk lies entirely inside
\* [chunk_offset, end), where end is real_header_offset for an indirect file
\* and N otherwise.
C6_ChunkHeaderInRegion ==
   Materialized =>
      /\ chunk.data - ChunkHeaderSize >= object.chunk_offset
      /\ chunk.data <= RegionEnd

\* The case C6 names: in an indirect file whose chunk section starts inside
\* the file and whose chunks all have non-negative sizes, a chunk is
\* materialized from bytes at or after the real header.
C6_NoChunkPastRealHeader ==
   ~ /\ Materialized
     /\ object.indirect_format
     /\ offset_in_object_file(object.chunk_offset)
     /\ object.chunk_offset < object.real_header_offset
     /\ ~oob
     /\ chunk.size >= 0
     /\ chunk.data > RegionEnd

-----------------------------------------------------------------------------
(* Properties of extent inference.                                         *)

\* A disassembly is under way: show_entry has called calc_code_size() with
\* segment.offset and handed its result to init_pcode_segment().
Disassembling == pc = "show_pcode" /\ ~oob

\* C7: for every script or function offset in [0, N) whose disassembly is
\* attempted, in every format, calc_code_size() returns a size that is not
\* negative.
C7_CodeSizeNotNegative ==
   Disassembling => segment.code_size >= 0

Range(f) == {f[i] : i \in DOMAIN f}

\* The offsets of the entries of the first chunk of the given name.
TableOffsets(obj, name) ==
   LET found == find_chunk(obj, name)
   IN IF found.kind # "found" \/ found.chunk.size < 0 THEN {}
      ELSE IF name = NameSPTR
      THEN Range(ScriptEntryOffsets(obj, found.chunk))
      ELSE Range(FuncEntryOffsets(found.chunk))

\* The candidate values of the statement: entry offsets and chunk_offset
\* for ACSE/ACSe, directory entries, string offsets and directory_offset
\* when there is a script directory.
Candidates(obj) ==
   (IF IsAcse(obj)
    THEN TableOffsets(obj, NameSPTR) \cup TableOffsets(obj, NameFUNC) \cup
         {obj.chunk_offset}
    ELSE {}) \cup
   (IF script_directory_present(obj)
    THEN Range(DirectoryEntryOffsets(obj, DirectoryCount(obj))) \cup
         Range(StringOffsets(obj, ReadInt(obj.string_offset))) \cup
         {obj.directory_offset}
    ELSE {})

NearestLater(obj, offset) ==
   Min({N} \cup {c \in Candidates(obj) : c > offset})

\* C8: calc_code_size( o ) = min( S ) - o, S holding N and every candidate
\* strictly greater than o; a candidate that is not strictly greater than
\* o, chunk_offset and directory_offset included, never lowers the result.
C8_CodeSizeIsNearestLater ==
   Disassembling =>
      segment.code_size = NearestLater(object, segment.offset) - segment.offset

-----------------------------------------------------------------------------
(* Properties of the disassembler.                                         *)

PCD_ANDWORLDVAR == 293

\* The one-integer class of the statement: the VAR and ARRAY read/modify
\* opcodes of script, map, world and global storage, LSPEC1..LSPEC5,
\* LSPEC5RESULT, CALL, CALLDISCARD and PUSHFUNCTION. The case list of
\* show_args() names all of them but PCD_ANDWORLDVAR.
OneIntegerClass == OneArgOpcodes \cup {PCD_ANDWORLDVAR}

\* A step of show_instruction that decodes one valid instruction.
Decodes ==
   /\ pc = "show_pcode" /\ pc' = "show_pcode"
   /\ segment' # segment
   /\ ~segment'.invalid_opcode

\* The width of the opcode at the cursor: 4 bytes in wide mode; in compact
\* mode 1 byte if the first byte is < 240, else 2.
OpcodeWidth ==
   IF ~object.small_code THEN 4
   ELSE IF PcodeByte(segment) < 240 THEN 1 ELSE 2

\* The opcode the bytes at the cursor encode: the int in wide mode; in
\* compact mode the first byte if it is < 240, else the sum of the first
\* two bytes.
EncodedOpcode ==
   IF ~object.small_code THEN PcodeInt(segment)
   ELSE IF PcodeByte(segment) < 240 THEN PcodeByte(segment)
   ELSE PcodeByte(segment) + ByteAt(segment.offset + segment.data + 1)

\* C9: an opcode of the one-integer class consumes exactly one argument
\* byte when small_code is true and exactly four otherwise.
C9_OneIntegerArgument ==
   [][(Decodes /\ EncodedOpcode \in OneIntegerClass) =>
         segment'.data = segment.data + OpcodeWidth +
                            (IF object.small_code THEN 1 ELSE 4)]_vars

\* The argument width the statement gives an opcode outside the
\* one-integer class and PCD_CASEGOTOSORTED; `first` is the byte that
\* follows the opcode.
ArgumentWidth(op, small_code, first) ==
   CASE op \in 9..13 -> (IF small_code THEN 1 ELSE 4) + 4 * (op - 8)
     [] op \in 168..172 -> 1 + (op - 167)
     [] op \in {167, 173} -> 1
     [] op \in 176..179 -> op - 174
     [] op = 174 -> 2
     [] op = 175 -> 1 + first
     [] op = 351 -> IF small_code THEN 3 ELSE 8
     [] OTHER -> 4 * PcodeNumArgs[op + 1]

\* C10: a successfully decoded instruction at p outside the one-integer
\* class and CASEGOTOSORTED leaves the cursor at p + opcode width +
\* argument width; in compact mode a first byte of 239 is a one-byte
\* opcode, a first byte of 240 starts a two-byte opcode whose id is the sum
\* of the two bytes.
C10_CursorAfterInstruction ==
   [][(Decodes /\ EncodedOpcode \notin OneIntegerClass
               /\ EncodedOpcode # PCD_CASEGOTOSORTED) =>
         /\ segment'.opcode = EncodedOpcode
         /\ segment'.data = segment.data + OpcodeWidth +
               ArgumentWidth(EncodedOpcode, object.small_code,
                  ByteAt(segment.offset + segment.data + OpcodeWidth))]_vars

\* A compact stream whose first instruction, the two-byte opcode CALLFUNC
\* with its three argument bytes, has been decoded.
C10_Witness ==
   /\ pc = "show_pcode"
   /\ object.small_code
   /\ segment.opcode = PCD_CALLFUNC
   /\ segment.data = 2 + 3

\* A step that decodes PCD_CASEGOTOSORTED with a count that is not
\* negative; CaseCursor is the cursor after the opcode, measured from the
\* start of the segment.
CaseCursor == segment.data + OpcodeWidth

DecodesCases == Decodes /\ EncodedOpcode = PCD_CASEGOTOSORTED

\* The cursor after `padding` bytes, the count read there and its cases;
\* no cursor (-1) when that count lies outside the buffer or exceeds the
\* bytes of the segment.
AfterCases(padding) ==
   IF ~InBuffer(segment.offset + CaseCursor + padding, IntSize) THEN -1
   ELSE LET count == ReadInt(segment.offset + CaseCursor + padding)
        IN IF count > segment.code_size THEN -1
           ELSE CaseCursor + padding + 4 +
                   (IF count > 0 THEN 8 * count ELSE 0)

\* The bytes up to the next multiple of 4 of `position`.
PaddingTo4(position) == (4 - (position % 4)) % 4

\* C11 (as stated): for PCD_CASEGOTOSORTED the cursor is padded to the next
\* multiple of 4 of cursor - base_offset, for every segment base offset,
\* then 4 bytes of count and count x 8 bytes of cases are consumed.
C11_PaddingFromSegmentBase ==
   [][DecodesCases =>
         segment'.data = AfterCases(PaddingTo4(CaseCursor))]_vars

\* C11 (amended): the cursor is padded to the next multiple of 4 of its
\* offset in the file, base_offset + cursor, no byte when that is a
\* multiple of 4 already; then 4 bytes of count and count x 8 bytes of
\* cases are consumed.
C11_PaddingFromFileStart ==
   [][DecodesCases =>
         segment'.data =
            AfterCases(PaddingTo4(segment.offset + CaseCursor))]_vars

\* A segment at a base that is no multiple of 4 whose PCD_CASEGOTOSORTED
\* with at least one case has been decoded.
C11_Witness ==
   /\ pc = "show_pcode"
   /\ segment.offset % 4 # 0
   /\ segment.opcode = PCD_CASEGOTOSORTED
   /\ segment.data >= 4 + 4 + 8
   /\ ~segment.invalid_opcode

\* The opcode at the cursor can be fetched whole and its id lies outside
\* [0, PCD_TOTAL).
FetchesInvalid ==
   /\ pc = "show_pcode"
   /\ ~pcode_segment_end(segment)
   /\ segment.code_size - segment.data >= OpcodeWidth
   /\ EncodedOpcode \notin 0..(PCD_TOTAL - 1)

\* C12: an opcode id outside [0, PCD_TOTAL) sets invalid_opcode and no
\* argument is decoded (the cursor stands right after the opcode, the
\* recorded opcode keeps its value); from a segment with invalid_opcode set
\* no further instruction is decoded and the run goes on with the entries
\* that remain, it is not aborted.
C12_InvalidOpcodeEndsSegment ==
   [][/\ FetchesInvalid =>
            /\ pc' = "show_pcode"
            /\ segment' = [segment EXCEPT !.data = @ + OpcodeWidth,
                                          !.invalid_opcode = TRUE]
            /\ todo' = todo
      /\ (pc = "show_pcode" /\ segment.invalid_opcode) =>
            /\ pc' = "show_entries"
            /\ segment' = segment
            /\ todo' = todo]_vars

\* The second script of a file is being disassembled after the first one
\* began with an id outside the table (-1 or PCD_TOTAL.. in wide code,
\* 385 or 510 in compact code), and a function remains to be shown.
C12_Witness ==
   /\ pc = "show_pcode"
   /\ segment.offset > 8
   /\ segment.data > 0
   /\ todo # <<>>
   /\ (IF object.small_code THEN ByteAt(8) + ByteAt(9) ELSE ReadInt(8))
         \notin 0..(PCD_TOTAL - 1)
   /\ data \in InvalidOpcodeFiles

-----------------------------------------------------------------------------
(* Properties of strings.                                                  *)

\* A string of an STRE chunk has been shown.
ShownEncoded == shown.chunk.type = NameSTRE

\* The bytes stored where the shown string starts are the encoding of s.
StoredEncodingOf(s) ==
   /\ shown.start + Len(s) + 1 <= N
   /\ Bytes(shown.start, Len(s) + 1) = Encode(s, shown.offset)

\* C13: decoding is the inverse of encoding: for every byte string s
\* without NUL and every chunk-local offset, decode_ch at positions 0, 1,
\* 2, ... of encode(s, offset) yields s exactly, and the NUL at position
\* |s|.
C13_DecodeInvertsEncode ==
   ShownEncoded =>
      \A s \in PlainStrings :
         StoredEncodingOf(s) =>
            /\ shown.value = s
            /\ shown.last = shown.start + Len(s)

\* A string of three characters at an odd offset has been decoded, and its
\* stored bytes differ from it.
C13_Witness ==
   /\ ShownEncoded
   /\ shown.offset % 2 = 1
   /\ Len(shown.value) = 3
   /\ StoredEncodingOf(shown.value)
   /\ Bytes(shown.start, 3) # shown.value

\* The byte at file offset `start + k` as the string is to be read: decoded
\* with the chunk-local offset of the string when the chunk is STRE.
StringByte(c, start, k) ==
   IF c.type = NameSTRE
   THEN XorBits(ByteAt(start + k),
           ((start - c.data) * 157135 + (k \div 2)) % 256, 8)
   ELSE ByteAt(start + k)

\* A terminating NUL lies between `start` and the end of chunk c.
TerminatedInChunk(c, start) ==
   \E k \in 0..(c.data + c.size - 1 - start) : StringByte(c, start, k) = 0

\* The run has bailed on a string without NUL.
BailedOnString ==
   pc = "bail" /\ todo # <<>> /\ Head(todo).reason = "string"

\* C14: a string of a chunk is used only after a terminating NUL has been
\* found in the remaining bytes of the chunk (on the decoded bytes for
\* STRE); without such a NUL the run fails, and no byte at or beyond the
\* end of the chunk is read for the string.
C14_StringsTerminatedInChunk ==
   /\ shown.chunk # NoChunk =>
         /\ TerminatedInChunk(shown.chunk, shown.start)
         /\ shown.start >= shown.chunk.data
         /\ shown.last < shown.chunk.data + shown.chunk.size
   /\ BailedOnString =>
         ~TerminatedInChunk(Head(todo).chunk,
             Head(todo).chunk.data + Head(todo).offset)
   /\ (pc = "show_entries" /\ todo # <<>> /\ Head(todo).kind = "string"
          /\ Head(todo).chunk # NoChunk) =>
         TerminatedInChunk(Head(todo).chunk, Head(todo).start)

\* The run has bailed on an STRE string that holds a stored NUL, but no
\* decoded one, before the end of its chunk, and a NUL follows the chunk.
C14_Witness ==
   /\ BailedOnString
   /\ Head(todo).chunk.type = NameSTRE
   /\ \E k \in 0..(Head(todo).chunk.size - Head(todo).offset - 1) :
         ByteAt(Head(todo).chunk.data + Head(todo).offset + k) = 0
   /\ N > Head(todo).chunk.data + Head(todo).chunk.size

\* The format is resolved and the dump is under way or over.
Dumping ==
   pc \in {"show_entries", "show_pcode", "bail", "hang", "done", "crash"}

\* The first chunk of the file and the first offset of its table.
FirstChunk == ReadChunkStep(init_chunk_reader(object)).chunk
FirstTableAt ==
   IF FirstChunk.type \in {NameSTRL, NameSTRE} THEN 3 * IntSize ELSE IntSize
\* The count: the first word of a name table, the second of a string table.
FirstTableCount ==
   ReadInt(FirstChunk.data +
      (IF FirstChunk.type \in {NameSTRL, NameSTRE} THEN IntSize ELSE 0))
FirstTableOffset == ReadInt(FirstChunk.data + FirstTableAt)

\* The first chunk is a table whose first offset lies outside the chunk.
FirstOffsetOutside ==
   /\ Dumping
   /\ IsAcse(object)
   /\ FirstChunk.type \in {NameFNAM, NameMEXP, NameSNAM, NameSTRL, NameSTRE}
   /\ FirstChunk.size >= FirstTableAt + IntSize
   /\ FirstChunk.data + FirstChunk.size <= N
   /\ FirstTableCount >= 1
   /\ ~(FirstTableOffset >= 0 /\ FirstTableOffset < FirstChunk.size)

\* C15: a string offset read from an FNAM, MEXP, SNAM, STRL or STRE table
\* is rejected unless it lies in [0, chunk.size), even when data_offset +
\* offset is inside the file: the run is aborted and no string is read
\* through the offset.
C15_OffsetsOutsideChunkRejected ==
   /\ shown.chunk.type \in {NameFNAM, NameMEXP, NameSNAM, NameSTRL, NameSTRE}
         => /\ shown.offset >= 0
            /\ shown.offset < shown.chunk.size
            /\ shown.start = shown.chunk.data + shown.offset
   /\ FirstOffsetOutside =>
         /\ shown = NoString
         /\ pc \in {"show_entries", "bail"}
         /\ LET entry == IF Head(todo).kind = "chunk" THEN todo[2]
                         ELSE Head(todo)
            IN /\ entry.kind = "bail"
               /\ entry.reason = "offset"
               /\ entry.offset = FirstTableOffset

\* The run has bailed on an offset beyond the chunk at which the file holds
\* a string.
C15_Witness ==
   /\ FirstOffsetOutside
   /\ pc = "bail"
   /\ FirstTableOffset > FirstChunk.size
   /\ FirstChunk.data + FirstTableOffset + 1 < N
   /\ ByteAt(FirstChunk.data + FirstTableOffset) # 0
   /\ ByteAt(FirstChunk.data + FirstTableOffset + 1) = 0

\* show_string_directory() is about to read, or has read, the string of an
\* offset of the string directory.
DirectoryStringDue ==
   /\ pc \in {"show_entries", "crash"}
   /\ todo # <<>>
   /\ Head(todo).kind = "string"
   /\ Head(todo).chunk = NoChunk

\* C16: every string offset read from the ACS0 string directory lies in
\* [0, N) when the string at that offset is read, and
\* show_string_directory reads no byte outside [0, N].
C16_DirectoryOffsetsChecked ==
   /\ DirectoryStringDue =>
         /\ offset_in_object_file(Head(todo).offset)
         /\ ~show_string(Head(todo).offset, Head(todo).start, FALSE).ub
   /\ (shown # NoString /\ shown.chunk = NoChunk) =>
         /\ shown.start >= 0
         /\ shown.last <= N

\* The entry show_sptr(), show_func() or show_script_directory() is at
\* carries an offset outside [0, N).
EntryOutsideFile ==
   /\ pc = "show_entries"
   /\ todo # <<>>
   /\ Head(todo).kind \in {"script", "func"}
   /\ (Head(todo).offset < 0 \/ Head(todo).offset >= N)

\* C17: an SPTR, FUNC or script-directory entry whose offset lies outside
\* [0, N) is reported and skipped: neither calc_code_size() nor show_pcode()
\* runs for it, the run is not aborted, and the remaining entries are
\* processed.
C17_EntryOutsideFileSkipped ==
   [][EntryOutsideFile =>
         /\ pc' = "show_entries"
         /\ todo' = Tail(todo)
         /\ segment' = segment
         /\ oob' = oob]_vars

\* The first of two script entries points outside the file and the code of
\* the second is being shown.
C17_Witness ==
   /\ pc = "show_pcode"
   /\ IsAcse(object)
   /\ ~object.indirect_format
   /\ FirstChunk.type = NameSPTR
   /\ FirstChunk.size = 24
   /\ ReadInt(FirstChunk.data + 4) >= N
   /\ segment.offset = ReadInt(FirstChunk.data + 16)
   /\ Len(todo) = Len(ShowItems(object)) - 3

-----------------------------------------------------------------------------
(* Properties of the operations and of the exit code.                      *)

\* The file has no format the program supports.
UnsupportedFormat == object.format \notin {"BIG_E", "LITTLE_E", "ZERO"}

\* -l or -c was asked for.
ChunksAsked == options.list_chunks \/ options.view_chunk # NoName

\* -c decides the operation: -l is looked at first.
ViewAsked == ~options.list_chunks /\ options.view_chunk # NoName

\* A name in upper case.
Upper(name) == [i \in DOMAIN name |-> ToUpper(name[i])]

\* The run that is about to return to main() has failed: an ill-formed
\* file, an unsupported format, -l or -c on an ACS0 file, -c with an
\* unsupported chunk or with a chunk the file does not hold.
RunFailed ==
   \/ pc = "bail"
   \/ UnsupportedFormat
   \/ object.format = "ZERO" /\ ChunksAsked
   \/ ViewAsked /\ Upper(options.view_chunk) \notin SupportedChunks
   \/ ViewAsked /\ viewed = <<>>

\* C18: the exit code is 0 exactly when the run succeeded, and non-zero on
\* an ill-formed file, an unsupported format, list-chunks or view-chunk on
\* an ACS0 file, and view-chunk of an unsupported or missing chunk.
C18_ExitCodeTellsFailure ==
   [][pc' = "exit" => (result' = EXIT_SUCCESS <=> ~RunFailed)]_vars

\* C19: list-chunks or view-chunk on a file resolved as ACS0 fails:
\* perform_operation reports failure, no chunk is walked, listed or dumped
\* and no directory is shown.
C19_NoChunksOnZero ==
   (object.format = "ZERO" /\ ChunksAsked) =>
      /\ pc \in {"determine_object_offsets", "perform_operation", "failed",
                 "bail", "exit"}
      /\ reader = NoReader
      /\ chunk = NoChunk
      /\ viewed = <<>>
      /\ todo = <<>>
      /\ shown = NoString
      /\ segment = NoSegment

\* perform_operation has reported failure for -c on an ACS0 file with a
\* script and a string in its directories.
C19_Witness ==
   /\ pc = "failed"
   /\ object.format = "ZERO"
   /\ ViewAsked
   /\ ReadInt(object.directory_offset) > 0
   /\ ReadInt(object.string_offset) > 0

\* -c with a supported type is under way, or over, on an ACSE/ACSe file.
Viewing ==
   /\ ViewAsked
   /\ Upper(options.view_chunk) \in SupportedChunks
   /\ object.format \in {"BIG_E", "LITTLE_E"}
   /\ pc \notin {"determine_format", "determine_object_offsets",
                  "perform_operation"}

\* The chunks of the walk whose name is the requested one but for the case
\* of the letters.
Matching ==
   SelectSeq(Walk(init_chunk_reader(object), {}).chunks,
      LAMBDA c : Upper(c.name) = Upper(options.view_chunk))

\* C20: view-chunk dumps, in ascending file order, exactly the chunks whose
\* name matches the requested name whatever the case, all of them once the
\* walk is over, and fails with "not found" just when no chunk matched.
C20_ViewsMatchingChunksInFileOrder ==
   Viewing =>
      /\ Len(viewed) <= Len(Matching)
      /\ viewed = SubSeq(Matching, 1, Len(viewed))
      /\ \A i, j \in DOMAIN viewed :
            i < j => viewed[i].data < viewed[j].data
      /\ pc = "done" => viewed = Matching /\ viewed # <<>>
      /\ pc = "failed" => Matching = <<>>

-----------------------------------------------------------------------------
(* Properties of show_object().                                            *)

\* The positions in `items` of the header lines of one kind.
Headers(items, kind) == {i \in DOMAIN items : items[i].kind = kind}

\* The dump is not cut short by a failure.
Complete(items) ==
   items = <<>> \/ items[Len(items)].kind \notin {"bail", "hang", "ub"}

\* The file has directories: format Zero, or indirect.
HasDirectories == object.format = "ZERO" \/ object.indirect_format

\* What show_object() is about to dump: chunks only for BigE and LittleE,
\* the directories only for Zero and indirect files, the chunks before the
\* script directory, its entries before the string directory.
SectionsInOrder(items) ==
   LET chunks == Headers(items, "chunk")
       scripts == Headers(items, "script_directory")
       strings == Headers(items, "string_directory")
   IN /\ chunks # {} => object.format \in {"BIG_E", "LITTLE_E"}
      /\ (Complete(items) /\ object.format \in {"BIG_E", "LITTLE_E"}) =>
            [i \in 1..Cardinality(chunks) |->
               items[CHOOSE k \in chunks :
                        Cardinality({m \in chunks : m <= k}) = i].chunk]
            = Walk(init_chunk_reader(object), {}).chunks
      /\ (scripts \cup strings) # {} => HasDirectories
      /\ (Complete(items) /\ HasDirectories) =>
            Cardinality(scripts) = 1 /\ Cardinality(strings) = 1
      /\ \A c \in chunks, d \in scripts \cup strings : c < d
      /\ \A d \in scripts, t \in strings : d < t
      /\ \A t \in strings, i \in DOMAIN items :
            i > t => items[i].kind \in {"string", "bail", "hang", "ub"}
      /\ \A d \in scripts, i \in DOMAIN items :
            items[i].kind \in {"script", "func"} /\ i > d =>
               /\ items[i].kind = "script"
               /\ \A t \in strings : i < t

\* The chunks are dumped with an increasing cursor.
ChunksAscending(items) ==
   \A i, j \in Headers(items, "chunk") :
      i < j => items[i].offset < items[j].offset

\* C21: show_object dumps chunks iff the format is BigE or LittleE and the
\* directories iff the format is Zero or the file is indirect; every chunk,
\* in ascending cursor order, comes before the script directory, and every
\* script-directory entry before the string directory.
C21_DumpOrder ==
   [][(pc = "perform_operation" /\ pc' = "show_entries") =>
         SectionsInOrder(todo') /\ ChunksAscending(todo')]_vars

-----------------------------------------------------------------------------
(* Properties of failures.                                                 *)

\* C22: a failed check is terminal: after bail() no chunk, directory entry
\* or instruction is read or printed, control is back in run(), which frees
\* the buffer once and reports failure; nothing happens after that.
C22_BailIsTerminal ==
   [][/\ pc = "bail" =>
            /\ pc' = "exit"
            /\ result' = EXIT_FAILURE
            /\ released = 0
            /\ released' = 1
            /\ UNCHANGED <<object, reader, chunk, oob, todo, segment, shown,
                           viewed>>
      /\ pc # "exit"]_vars

\* The run has ended in failure, the buffer freed once, after an
\* instruction field crossed the end of its segment: bytes of the segment
\* are left undecoded.
C22_Witness ==
   /\ pc = "exit"
   /\ result = EXIT_FAILURE
   /\ released = 1
   /\ segment # NoSegment
   /\ segment.data < segment.code_size
   /\ ~segment.invalid_opcode

\* The file is shorter than a header, or the offset field of its header is
\* not in [0, N).
HeaderRejected ==
   \/ N < 8
   \/ I32(Bytes(4, 4)) < 0
   \/ I32(Bytes(4, 4)) >= N

\* C23: the resolver fails, before it classifies the magic and without a
\* read outside the buffer, for every file with N < 8 and for every file
\* whose header offset is not in [0, N).
C23_HeaderRejected ==
   /\ [][(pc = "determine_format" /\ HeaderRejected) =>
            /\ pc' = "bail"
            /\ object' = InitObject
            /\ oob' = FALSE]_vars
   /\ [](HeaderRejected =>
            /\ pc \in {"determine_format", "bail", "exit"}
            /\ object = InitObject
            /\ ~oob
            /\ pc = "exit" => result = EXIT_FAILURE)

\* The resolver has failed on a file of exactly 8 bytes whose offset field
\* is 8, with a magic it would have classified.
C23_Witness ==
   /\ pc = "bail"
   /\ N = 8
   /\ I32(Bytes(4, 4)) = N
   /\ Bytes(0, 4) \in {IdBigE, IdLittleE, IdZero}

-----------------------------------------------------------------------------
(* The minimal ACS0 file.                                                  *)

\* What the run shows of a file with no script and no string: the header
\* of the script directory with total-scripts=0, then the header of the
\* string directory with total-strings=0.
EmptyDirectories ==
   /\ Len(todo) = 2
   /\ todo[1].kind = "script_directory"
   /\ todo[1].offset = 8
   /\ todo[1].total = 0
   /\ todo[2].kind = "string_directory"
   /\ todo[2].offset = 12
   /\ todo[2].total = 0

\* C24 as stated: the file of exactly the magic, the offset 8 and a script
\* count of 0 is accepted by show-object.
C24_MinimalZeroAccepted ==
   data = MinimalZero => pc # "bail"

\* C24: the file of the magic, the offset 8, a script count of 0 and a
\* string count of 0 is accepted as ACS0 and shows the script directory
\* with total-scripts=0 and the string directory with total-strings=0;
\* without the string count the resolver rejects the file.
C24_MinimalZeroWithStringCount ==
   /\ [][(data = MinimalZeroWithStrings /\ pc = "perform_operation") =>
            /\ object.format = "ZERO"
            /\ pc' = "show_entries"
            /\ EmptyDirectories']_vars
   /\ [](data = MinimalZeroWithStrings =>
            /\ pc \notin {"bail", "failed", "crash", "hang"}
            /\ ~oob
            /\ shown = NoString
            /\ segment = NoSegment
            /\ pc = "exit" => result = EXIT_SUCCESS)
   /\ [](data = MinimalZero =>
            pc \in {"determine_format", "determine_object_offsets", "bail",
                    "exit"})

\* The file with the string count has been shown to its end.
C24_Witness ==
   /\ data = MinimalZeroWithStrings
   /\ pc = "done"
   /\ todo = <<>>
   /\ object.format = "ZERO"
   /\ object.string_offset = 12

-----------------------------------------------------------------------------
(* Properties of determine_object_offsets().                               *)

\* C25: whenever the resolver succeeds on a file with a script directory,
\* total_scripts is not negative, string_offset is directory_offset + 4 +
\* 12 * total_scripts over the integers, and directory_offset <
\* string_offset < N, so that the table of entries lies inside the file.
C25_StringOffsetExact ==
   (pc = "perform_operation" /\ script_directory_present(object)) =>
      LET total_scripts == ReadInt(object.directory_offset)
      IN /\ total_scripts >= 0
         /\ object.string_offset =
               object.directory_offset + IntSize +
                  Acs0EntrySize * total_scripts
         /\ object.directory_offset < object.string_offset
         /\ object.string_offset < N

-----------------------------------------------------------------------------
(* Properties of calc_code_size() and of the segment it delimits.          *)

\* The entry at the head of the list is one show_pcode() is about to
\* disassemble.
CodeEntryDue ==
   /\ pc = "show_entries"
   /\ todo # <<>>
   /\ Head(todo).kind \in {"script", "func"}
   /\ offset_in_object_file(Head(todo).offset)
   /\ ~(Head(todo).kind = "func" /\ Head(todo).offset = 0)

\* C26: calc_code_size() reads no byte outside the file, whatever the
\* counts stored in the file: the counts and entries of the two directories
\* and the SPTR and FUNC entries are read only where the bytes exist.
C26_ExtentReadsInFile ==
   CodeEntryDue =>
      calc_code_size(object, Head(todo).offset, <<>>).kind # "ub"

\* C27: in every disassembled segment (offset o in the file, code_size =
\* calc_code_size(o)) the cursor never exceeds o + code_size, so that the
\* bytes read lie in [o, o + code_size), and o + code_size <= N; a field
\* that would cross the end of the segment makes the run fail.
C27_CursorInSegment ==
   /\ [](pc = "show_pcode" =>
            /\ offset_in_object_file(segment.offset)
            /\ segment.data >= 0
            /\ segment.data <= segment.code_size
            /\ segment.offset + segment.code_size <= N)
   /\ [][(pc = "show_pcode" /\ ~pcode_segment_end(segment) /\
            IsBailed(DecodeInstruction(segment, object.small_code)))
              => pc' = "bail"]_vars

\* The file offset of the count of the PCD_CASEGOTOSORTED at the cursor.
AlignedCountPc ==
   segment.offset + CaseCursor + PaddingTo4(segment.offset + CaseCursor)

\* C28: each case line of PCD_CASEGOTOSORTED carries the file offset of the
\* first byte of the (value, target) pair of its case: case i is reported
\* at aligned_count_pc + 4 + 8 * i.
C28_CaseLineAtPair ==
   [][DecodesCases =>
         LET lines ==
                CaseLinePcs(show_opcode(segment, object.small_code))
         IN \A i \in DOMAIN lines :
               lines[i] = AlignedCountPc + 4 + 8 * (i - 1)]_vars

-----------------------------------------------------------------------------
(* Properties of show_aini().                                              *)

\* The first chunk of the file is an AINI chunk of at least 4 bytes.
FirstIsAini ==
   /\ IsAcse(object)
   /\ ReadChunkStep(init_chunk_reader(object)).kind = "chunk"
   /\ FirstChunk.type = NameAINI
   /\ FirstChunk.size >= 4

\* floor( ( size - 4 ) / 4 )
AiniTotal == (FirstChunk.size - 4) \div 4

\* C29: for an AINI chunk with size >= 4 the decoder reports the array
\* index and then exactly N = floor((size - 4) / 4) values, the elements
\* 0..N-1 in ascending order, also when size - 4 is no multiple of 4.
C29_AiniValues ==
   [][(pc = "perform_operation" /\ pc' = "show_entries" /\ FirstIsAini) =>
         /\ Len(todo') >= 2 + AiniTotal
         /\ todo'[1].kind = "chunk"
         /\ todo'[2].kind = "array_index"
         /\ todo'[2].total = ReadInt(FirstChunk.data)
         /\ \A i \in 1..AiniTotal :
               /\ todo'[2 + i].kind = "element"
               /\ todo'[2 + i].offset = i - 1
               /\ todo'[2 + i].total = ReadInt(FirstChunk.data + 4 * i)
         /\ \A i \in DOMAIN todo' :
               todo'[i].kind = "element" => i \in 3..(2 + AiniTotal)
         /\ \A i \in DOMAIN todo' :
               todo'[i].kind = "array_index" => i = 2]_vars

\* The last value of an AINI chunk of two values and some bytes more is
\* about to be reported.
C29_Witness ==
   /\ pc = "show_entries"
   /\ FirstIsAini
   /\ (FirstChunk.size - 4) % 4 # 0
   /\ Len(todo) >= 1
   /\ Head(todo).kind = "element"
   /\ Head(todo).offset = 1
   /\ Head(todo).total = 7
   /\ AiniTotal = 2

-----------------------------------------------------------------------------
(* Extent inference and the entries of the dump.                           *)

\* The offsets of the entries the dump decodes from the chunks it shows as
\* SPTR or FUNC.
DecodedEntryOffsets ==
   IF IsAcse(object)
   THEN LET items ==
               UntilStop(ChunksItems(object,
                  Walk(init_chunk_reader(object), {}).chunks))
        IN {items[i].offset :
              i \in {k \in DOMAIN items :
                        items[k].kind \in {"script", "func"}}}
   ELSE {}

\* C30: extent inference uses the entries the dump decodes: every entry
\* offset of a chunk decoded as SPTR or FUNC, whatever the case of its tag
\* and however many such chunks the file holds, is a candidate end, so for
\* two decoded entry offsets a < b, calc_code_size(a) <= b - a.
C30_DecodedEntriesAreEnds ==
   [][(CodeEntryDue /\ pc' = "show_pcode" /\ ~oob') =>
         \A b \in DecodedEntryOffsets :
            b > Head(todo).offset =>
               segment'.code_size <= b - Head(todo).offset]_vars

====
